---------------------------- MODULE Spec2Model ----------------------------
(***************************************************************************)
(* A model of easylogger's view engine (src/easylogger/view_engine.py):    *)
(* apply_view turns scanned records into a table under a ViewConfig; of    *)
(* its view store (view_store.py, models.py), which keeps views as JSON    *)
(* files; of its scanner (scanner.py); and of the scan cache of its HTTP   *)
(* layer (web_api.py).                                                     *)
(*                                                                         *)
(* Specifications: Spec and CellsSpec (one call of apply_view), CallsSpec  *)
(* (two calls), StoreSpec (views saved and loaded), OpsSpec (views         *)
(* constructed, saved, copied and renamed), ScanSpec (scan_records on      *)
(* roots with files of every kind), ApiSpec (scan, render and rename       *)
(* requests while the log files change), ViewsSpec (views opened and saved *)
(* over HTTP), RenamesSpec (renames over HTTP with names as typed).        *)
(*                                                                         *)
(* Python values are records [t, n, s]:                                    *)
(*   t = "none"                      None                                  *)
(*   t = "bool",  n \in {0, 1}       False / True                          *)
(*   t = "int",   n                  an int                                *)
(*   t = "float", n                  a finite float, n = value * Scale     *)
(*   t = "nan"                       float("nan")                          *)
(*   t = "str",   s                  a str, s its characters in order      *)
(* A Python dict is a sequence of items [k, v] with distinct keys, in      *)
(* insertion order.  Column names (dict keys) are TLA+ strings.            *)
(***************************************************************************)
EXTENDS Integers, Sequences, FiniteSets, TLC

VARIABLES records, view, table, second, pc,    \* a caller of apply_view
          view_files, saved, loaded,          \* a caller of the view store
          called,                             \* the last call of the view store
                                              \* and how it ended
          scan_call,                          \* the last call of scan_records
          log_files,                          \* the log files under the root
          active_view_name, cached_records, cached_scan_meta,  \* create_app
          request, response,                  \* the last request and its answer
          requests,                           \* how many requests were made
          last_scan                           \* history: what each name's last
                                              \* POST /api/scan captured

engineVars == <<records, view, table, second, pc>>

storeVars == <<view_files, saved, loaded, called>>

apiVars == <<log_files, active_view_name, cached_records, cached_scan_meta,
             request, response, requests, last_scan, scan_call>>

vars == <<records, view, table, second, pc, view_files, saved, loaded,
          log_files, active_view_name, cached_records, cached_scan_meta,
          request, response, requests, last_scan, called, scan_call>>

-----------------------------------------------------------------------------
(* Bounds of the model.                                                    *)

\* most requests made to the HTTP layer
MaxRequests == 3

\* longest record sequence handed to apply_view
MaxRecords == 3
\* decimal digits a modelled float keeps after the point
FracDigits == 1

-----------------------------------------------------------------------------
(* Characters and strings.                                                 *)

\* The printable ASCII characters but the backslash and the backquote, in code point order.
Alphabet ==
  <<
     " ", "!", "\"", "#", "$", "%", "&", "'", "(", ")", "*", "+",
     ",", "-", ".", "/", "0", "1", "2", "3", "4", "5", "6", "7",
     "8", "9", ":", ";", "<", "=", ">", "?", "@", "A", "B", "C",
     "D", "E", "F", "G", "H", "I", "J", "K", "L", "M", "N", "O",
     "P", "Q", "R", "S", "T", "U", "V", "W", "X", "Y", "Z", "[",
     "]", "^", "_", "a", "b", "c", "d", "e", "f", "g",
     "h", "i", "j", "k", "l", "m", "n", "o", "p", "q", "r", "s",
     "t", "u", "v", "w", "x", "y", "z", "{", "|", "}", "~" >>

Digits == <<"0", "1", "2", "3", "4", "5", "6", "7", "8", "9">>

IsDigit(c) == \E i \in 1..Len(Digits) : Digits[i] = c

DigitValue(c) == (CHOOSE i \in 1..Len(Digits) : Digits[i] = c) - 1

Ord(c) == CHOOSE i \in 1..Len(Alphabet) : Alphabet[i] = c

\* the first position from i on where a and b differ, 0 when the shorter
\* one ends before
RECURSIVE FirstDifference(_, _, _)
FirstDifference(a, b, i) ==
  IF i > Len(a) \/ i > Len(b) THEN 0
  ELSE IF a[i] # b[i] THEN i
  ELSE FirstDifference(a, b, i + 1)

\* Python's str < str: lexicographic by code point, a proper prefix first.
StrLess(a, b) ==
  IF a = b THEN FALSE
  ELSE LET d == FirstDifference(a, b, 1)
       IN  IF d = 0 THEN Len(a) < Len(b) ELSE Ord(a[d]) < Ord(b[d])

Reverse(s) == [i \in 1..Len(s) |-> s[Len(s) + 1 - i]]

RECURSIVE LStrip(_)
LStrip(s) == IF Len(s) > 0 /\ s[1] = " " THEN LStrip(Tail(s)) ELSE s

\* str.strip(): whitespace removed at both ends
Strip(s) == Reverse(LStrip(Reverse(LStrip(s))))

AllDigits(s) == \A i \in 1..Len(s) : IsDigit(s[i])

RECURSIVE Pow10(_)
Pow10(k) == IF k = 0 THEN 1 ELSE 10 * Pow10(k - 1)

Scale == Pow10(FracDigits)

RECURSIVE DigitsValue(_)
DigitsValue(s) ==
  IF Len(s) = 0 THEN 0
  ELSE 10 * DigitsValue(SubSeq(s, 1, Len(s) - 1)) + DigitValue(s[Len(s)])

RECURSIVE IntStr(_)
IntStr(n) ==
  IF n < 0 THEN <<"-">> \o IntStr(0 - n)
  ELSE IF n < 10 THEN <<Digits[n + 1]>>
  ELSE IntStr(n \div 10) \o <<Digits[(n % 10) + 1]>>

\* the part of s after an optional sign
Unsigned(s) == IF Len(s) > 0 /\ s[1] \in {"+", "-"} THEN Tail(s) ELSE s

DotAt(s) == IF \E i \in 1..Len(s) : s[i] = "."
            THEN CHOOSE i \in 1..Len(s) : s[i] = "." /\ \A j \in 1..(i - 1) : s[j] # "."
            ELSE 0

IntPart(s) == IF DotAt(s) = 0 THEN s ELSE SubSeq(s, 1, DotAt(s) - 1)

FracPart(s) == IF DotAt(s) = 0 THEN <<>> ELSE SubSeq(s, DotAt(s) + 1, Len(s))

\* _NUMERIC_RE.match(s): ^[+-]?(?:\d+(?:\.\d*)?|\.\d+)$
_NUMERIC_RE(s) ==
  LET u == Unsigned(s)
  IN  /\ AllDigits(IntPart(u))
      /\ AllDigits(FracPart(u))
      /\ \/ Len(IntPart(u)) > 0
         \/ DotAt(u) > 0 /\ Len(FracPart(u)) > 0

\* the first FracDigits digits of a fraction, padded with zeros
FracScaled(f) ==
  DigitsValue([i \in 1..FracDigits |-> IF i <= Len(f) THEN f[i] ELSE "0"])

\* float(s) * Scale for a string s that matches _NUMERIC_RE
ParseScaled(s) ==
  LET u == Unsigned(s)
      m == DigitsValue(IntPart(u)) * Scale + FracScaled(FracPart(u))
  IN  IF Len(s) > 0 /\ s[1] = "-" THEN 0 - m ELSE m


-----------------------------------------------------------------------------
(* Python values.                                                          *)

VNone == [t |-> "none", n |-> 0, s |-> <<>>]
VBool(b) == [t |-> "bool", n |-> IF b THEN 1 ELSE 0, s |-> <<>>]
VInt(i) == [t |-> "int", n |-> i, s |-> <<>>]
VFloat(scaled) == [t |-> "float", n |-> scaled, s |-> <<>>]
VNaN == [t |-> "nan", n |-> 0, s |-> <<>>]
VStr(chars) == [t |-> "str", n |-> 0, s |-> chars]

\* the digits of a fraction given in units of 1/Scale, without trailing zeros
RECURSIVE FracStr(_, _)
FracStr(f, width) ==
  IF width = 1 THEN <<Digits[f + 1]>>
  ELSE IF f % 10 = 0 THEN FracStr(f \div 10, width - 1)
  ELSE FracStr(f \div 10, width - 1) \o <<Digits[(f % 10) + 1]>>

\* repr of a finite float: 2.5, 3.0, -0.5
FloatStr(scaled) ==
  LET m == IF scaled < 0 THEN 0 - scaled ELSE scaled
  IN  (IF scaled < 0 THEN <<"-">> ELSE <<>>)
        \o IntStr(m \div Scale) \o <<".">> \o FracStr(m % Scale, FracDigits)

\* str(value)
PyStr(value) ==
  CASE value.t = "none" -> <<"N", "o", "n", "e">>
    [] value.t = "bool" -> IF value.n = 1 THEN <<"T", "r", "u", "e">>
                                          ELSE <<"F", "a", "l", "s", "e">>
    [] value.t = "int" -> IntStr(value.n)
    [] value.t = "float" -> FloatStr(value.n)
    [] value.t = "nan" -> <<"n", "a", "n">>
    [] value.t = "str" -> value.s

\* type(value).__name__
TypeName(value) ==
  CASE value.t = "none" -> <<"N", "o", "n", "e", "T", "y", "p", "e">>
    [] value.t = "bool" -> <<"b", "o", "o", "l">>
    [] value.t = "int" -> <<"i", "n", "t">>
    [] value.t \in {"float", "nan"} -> <<"f", "l", "o", "a", "t">>
    [] value.t = "str" -> <<"s", "t", "r">>

-----------------------------------------------------------------------------
(* Python dicts: sequences of items [k, v], keys distinct, insertion order. *)

Item(k, v) == [k |-> k, v |-> v]

Has(d, k) == \E i \in 1..Len(d) : d[i].k = k

Get(d, k) == d[CHOOSE i \in 1..Len(d) : d[i].k = k].v

\* d.get(k)
GetOrNone(d, k) == IF Has(d, k) THEN Get(d, k) ELSE VNone

\* d[k] = v
Put(d, k, v) ==
  IF Has(d, k)
  THEN [i \in 1..Len(d) |-> IF d[i].k = k THEN Item(k, v) ELSE d[i]]
  ELSE Append(d, Item(k, v))

\* d.setdefault(k, v)
SetDefault(d, k, v) == IF Has(d, k) THEN d ELSE Append(d, Item(k, v))

Keys(d) == [i \in 1..Len(d) |-> d[i].k]

KeySet(d) == {d[i].k : i \in 1..Len(d)}

Range(s) == {s[i] : i \in 1..Len(s)}

Contains(s, x) == \E i \in 1..Len(s) : s[i] = x

-----------------------------------------------------------------------------
(* Sort keys.                                                              *)

NoFloat == [some |-> FALSE, nan |-> FALSE, n |-> 0]

\* A plausible slip: the bool check is left out, and a bool, an int to
\* isinstance, counts as the number 1 or 0.
ToFloatCountingBool(value) ==
  CASE value.t = "bool" -> [some |-> TRUE, nan |-> FALSE,
                            n |-> IF value = VBool(TRUE) THEN Scale ELSE 0]
    [] value.t = "int" -> [some |-> TRUE, nan |-> FALSE, n |-> value.n * Scale]
    [] value.t = "float" -> [some |-> TRUE, nan |-> FALSE, n |-> value.n]
    [] value.t = "nan" -> [some |-> TRUE, nan |-> TRUE, n |-> 0]
    [] value.t = "str" ->
         IF _NUMERIC_RE(Strip(value.s))
         THEN [some |-> TRUE, nan |-> FALSE, n |-> ParseScaled(Strip(value.s))]
         ELSE NoFloat
    [] OTHER -> NoFloat

\* _to_float: the float a value stands for (n in units of 1/Scale), if any
_to_float(value) ==
  CASE value.t = "bool" -> NoFloat
    [] value.t = "int" -> [some |-> TRUE, nan |-> FALSE, n |-> value.n * Scale]
    [] value.t = "float" -> [some |-> TRUE, nan |-> FALSE, n |-> value.n]
    [] value.t = "nan" -> [some |-> TRUE, nan |-> TRUE, n |-> 0]
    [] value.t = "str" ->
         IF _NUMERIC_RE(Strip(value.s))
         THEN [some |-> TRUE, nan |-> FALSE, n |-> ParseScaled(Strip(value.s))]
         ELSE NoFloat
    [] OTHER -> NoFloat

\* A sort key: the tuple (c, x) of _sortable_value, x a number n or a str s.
Key(c, n, s) == [c |-> c, n |-> n, s |-> s]

\* _sortable_value
_sortable_value(value) ==
  LET numeric == _to_float(value)
  IN  IF numeric.some /\ ~numeric.nan THEN Key(0, numeric.n, <<>>)
      ELSE IF value.t = "none" THEN Key(2, 0, <<>>)
      ELSE Key(1, 0, PyStr(value))

\* Python's tuple comparison a < b of two sort keys
KeyLess(a, b) ==
  \/ a.c < b.c
  \/ /\ a.c = b.c
     /\ \/ a.n < b.n
        \/ a.n = b.n /\ StrLess(a.s, b.s)

\* One step of a stable sort: e goes behind every entry whose key is not
\* greater than its own.  Entries are [key, row].
RECURSIVE Insert(_, _)
Insert(sorted, e) ==
  IF Len(sorted) = 0 THEN <<e>>
  ELSE IF KeyLess(e.key, sorted[Len(sorted)].key)
       THEN Append(Insert(SubSeq(sorted, 1, Len(sorted) - 1), e), sorted[Len(sorted)])
       ELSE Append(sorted, e)

RECURSIVE StableSort(_)
StableSort(entries) ==
  IF Len(entries) = 0 THEN <<>>
  ELSE Insert(StableSort(SubSeq(entries, 1, Len(entries) - 1)), entries[Len(entries)])

\* A plausible slip: descending order got by reversing the ascending result,
\* which also reverses the rows whose keys are equal.
ReverseAfterSort(entries, reverse) ==
  IF reverse THEN Reverse(StableSort(entries)) ELSE StableSort(entries)

\* A plausible slip: the reverse flag is dropped.
SortIgnoringReverse(entries, reverse) == StableSort(entries)

\* list.sort(key=..., reverse=reverse): stable; with reverse the list is
\* reversed, sorted and reversed again, so equal keys keep their order.
ListSort(entries, reverse) ==
  IF reverse THEN Reverse(StableSort(Reverse(entries))) ELSE StableSort(entries)


-----------------------------------------------------------------------------
(* Rows.  A row is [id, cells]: cells is the row's dict, id the position   *)
(* of the record the row was copied from (the identity of the dict object).*)

Row(id, cells) == [id |-> id, cells |-> cells]

\* lines 43-47: the keys not seen before join the discovered columns
RECURSIVE Discover(_, _)
Discover(columns, keys) ==
  IF Len(keys) = 0 THEN columns
  ELSE Discover(IF Contains(columns, Head(keys)) THEN columns
                ELSE Append(columns, Head(keys)),
                Tail(keys))

\* A plausible slip: the path is assigned, not defaulted.
CopiedPathReset(record) == Put(record, "path", VNone)

\* lines 39-40: copied = dict(record); copied.setdefault("path", None)
Copied(record) == SetDefault(record, "path", VNone)

\* lines 34-47: the discovered columns after the first n records
RECURSIVE DiscoveredColumns(_, _)
DiscoveredColumns(recs, n) ==
  IF n = 0 THEN <<"path">>
  ELSE Discover(DiscoveredColumns(recs, n - 1), Keys(Copied(recs[n])))

\* lines 50-51: row.setdefault(column, None) for every discovered column
RECURSIVE Backfill(_, _)
Backfill(cells, columns) ==
  IF Len(columns) = 0 THEN cells
  ELSE Backfill(SetDefault(cells, Head(columns), VNone), Tail(columns))

\* A plausible slip: the rows are not backfilled.
NormalizeWithoutBackfill(recs) ==
  [rows |-> [i \in 1..Len(recs) |-> Row(i, Copied(recs[i]))],
   columns |-> DiscoveredColumns(recs, Len(recs))]

_normalize_rows(recs) ==
  LET discovered_columns == DiscoveredColumns(recs, Len(recs))
  IN  [rows |-> [i \in 1..Len(recs) |->
                   Row(i, Backfill(Copied(recs[i]), discovered_columns))],
       columns |-> discovered_columns]

-----------------------------------------------------------------------------
(* Computed columns.  eval takes any Python expression; the model's        *)
(* expressions are the ones that read the row, [op, k, c]:                 *)
(*   "const"  a literal, c its value                                       *)
(*   "get"    row["k"]                                                     *)
(*   "add1"   row["k"] + 1                                                 *)

Const(c) == [op |-> "const", k |-> "", c |-> c]
GetExpr(k) == [op |-> "get", k |-> k, c |-> VNone]
Add1(k) == [op |-> "add1", k |-> k, c |-> VNone]

\* the characters of a column name
NameChars(k) ==
  CASE k = "path" -> <<"p", "a", "t", "h">>
    [] k = "step" -> <<"s", "t", "e", "p">>
    [] k = "loss" -> <<"l", "o", "s", "s">>
    [] k = "score" -> <<"s", "c", "o", "r", "e">>
    [] k = "next" -> <<"n", "e", "x", "t">>
    [] k = "zz" -> <<"z", "z">>

Returned(value) == [raised |-> FALSE, value |-> value, msg |-> <<>>]

Raised(msg) == [raised |-> TRUE, value |-> VNone, msg |-> msg]

\* str(KeyError(k))
KeyErrorMsg(chars) == <<"'">> \o chars \o <<"'">>

\* value + 1
PlusOne(value) ==
  CASE value.t \in {"int", "bool"} -> Returned(VInt(value.n + 1))
    [] value.t = "float" -> Returned(VFloat(value.n + Scale))
    [] value.t = "nan" -> Returned(VNaN)
    [] value.t = "none" ->
         Raised(<<"u", "n", "s", "u", "p", "p", "o", "r", "t", "e", "d", " ", "o", "p", "e", "r", "a", "n", "d", " ", "t", "y", "p", "e", "(", "s", ")", " ", "f", "o", "r", " ", "+", ":", " ", "'", "N", "o", "n", "e", "T", "y", "p", "e", "'", " ", "a", "n", "d", " ", "'", "i", "n", "t", "'">>)
    [] value.t = "str" ->
         Raised(<<"c", "a", "n", " ", "o", "n", "l", "y", " ", "c", "o", "n", "c", "a", "t", "e", "n", "a", "t", "e", " ", "s", "t", "r", " ", "(", "n", "o", "t", " ", "\"", "i", "n", "t", "\"", ")", " ", "t", "o", " ", "s", "t", "r">>)

\* line 65: eval(expr, builtins_scope, {"row": row})
Eval(expr, cells) ==
  CASE expr.op = "const" -> Returned(expr.c)
    [] expr.op = "get" ->
         IF Has(cells, expr.k) THEN Returned(Get(cells, expr.k))
         ELSE Raised(KeyErrorMsg(NameChars(expr.k)))
    [] expr.op = "add1" ->
         IF Has(cells, expr.k) THEN PlusOne(Get(cells, expr.k))
         ELSE Raised(KeyErrorMsg(NameChars(expr.k)))

ERROR_PREFIX == <<"E", "R", "R", "O", "R", ":", " ">>

\* A plausible slip: the try is around the loop over the rows, so one row's
\* failure gives every row the error.
ComputeColumnFailingAll(rows, computed) ==
  LET failed == {i \in 1..Len(rows) : Eval(computed.expr, rows[i].cells).raised}
      first == CHOOSE i \in failed : \A j \in failed : i <= j
  IN  [i \in 1..Len(rows) |->
         LET r == Eval(computed.expr, rows[IF failed = {} THEN i ELSE first].cells)
             value == IF r.raised THEN VStr(ERROR_PREFIX \o r.msg) ELSE r.value
         IN  Row(rows[i].id, Put(rows[i].cells, computed.name, value))]

\* lines 63-68: one computed column, evaluated for every row
ComputeColumn(rows, computed) ==
  [i \in 1..Len(rows) |->
     LET r == Eval(computed.expr, rows[i].cells)
         value == IF r.raised THEN VStr(ERROR_PREFIX \o r.msg) ELSE r.value
     IN  Row(rows[i].id, Put(rows[i].cells, computed.name, value))]

\* the values of computed, each evaluated on original, written into cells
RECURSIVE WriteEvaluated(_, _, _)
WriteEvaluated(cells, original, computed) ==
  IF Len(computed) = 0 THEN cells
  ELSE LET r == Eval(Head(computed).expr, original)
           value == IF r.raised THEN VStr(ERROR_PREFIX \o r.msg) ELSE r.value
       IN  WriteEvaluated(Put(cells, Head(computed).name, value), original, Tail(computed))

\* A plausible slip: every expression is evaluated on the normalized row,
\* and the values are written afterwards.
ComputedFromNormalized(rows, all_columns, computed) ==
  [rows |-> [i \in 1..Len(rows) |->
               Row(rows[i].id, WriteEvaluated(rows[i].cells, rows[i].cells, computed))],
   columns |-> Discover(all_columns, [j \in 1..Len(computed) |-> computed[j].name])]

RECURSIVE _apply_computed_columns(_, _, _)
_apply_computed_columns(rows, all_columns, computed) ==
  IF Len(computed) = 0 THEN [rows |-> rows, columns |-> all_columns]
  ELSE _apply_computed_columns(
         ComputeColumn(rows, Head(computed)),
         IF Contains(all_columns, Head(computed).name) THEN all_columns
         ELSE Append(all_columns, Head(computed).name),
         Tail(computed))


-----------------------------------------------------------------------------
(* Column order.                                                           *)

\* One loop of _ordered_columns: every column of columns that is in
\* all_columns and not yet emitted is appended to ordered.
RECURSIVE Emit(_, _, _)
Emit(ordered, columns, all_columns) ==
  IF Len(columns) = 0 THEN ordered
  ELSE Emit(IF Contains(all_columns, Head(columns)) /\ ~Contains(ordered, Head(columns))
            THEN Append(ordered, Head(columns))
            ELSE ordered,
            Tail(columns), all_columns)

\* A plausible slip: the configured names are taken without a look at the
\* column set or at what is already emitted.
OrderedColumnsUnchecked(configured_order, all_columns) ==
  Emit(configured_order, all_columns, all_columns)

\* A plausible slip: path is forced to the front.
OrderedColumnsPathFirst(configured_order, all_columns) ==
  Emit(Emit(<<"path">>, configured_order, all_columns), all_columns, all_columns)

_ordered_columns(configured_order, all_columns) ==
  Emit(Emit(<<>>, configured_order, all_columns), all_columns, all_columns)

\* A plausible slip: the hidden columns are not taken out.
VisibleColumnsAll(ordered_columns, hidden) == ordered_columns

\* lines 25-26
VisibleColumns(ordered_columns, hidden) ==
  SelectSeq(ordered_columns, LAMBDA column : ~Contains(hidden, column))

-----------------------------------------------------------------------------
(* Row order.                                                              *)

\* line 91: {pinned_id: index for index, pinned_id in enumerate(pinned_ids)}:
\* a later occurrence of a path replaces the index of an earlier one
pinned_index(pinned_ids, path) ==
  (CHOOSE i \in 1..Len(pinned_ids) :
     pinned_ids[i] = path /\ \A j \in (i + 1)..Len(pinned_ids) : pinned_ids[j] # path) - 1

\* lines 97-98: isinstance(path, str) and path in pinned_index
IsPinned(row, pinned_ids) ==
  LET path == GetOrNone(row.cells, "path")
  IN  path.t = "str" /\ Contains(pinned_ids, path.s)

\* A plausible slip: the pinned rows stay in input order.
PinnedRowsUnsorted(rows, pinned_ids) ==
  SelectSeq(rows, LAMBDA row : IsPinned(row, pinned_ids))

\* lines 96-103: the pinned rows, sorted by their index in pinned_ids
PinnedRows(rows, pinned_ids) ==
  LET pinned_rows == SelectSeq(rows, LAMBDA row : IsPinned(row, pinned_ids))
      entries == [i \in 1..Len(pinned_rows) |->
                    [key |-> Key(0, pinned_index(pinned_ids,
                                                 Get(pinned_rows[i].cells, "path").s), <<>>),
                     row |-> pinned_rows[i]]]
      sorted == ListSort(entries, FALSE)
  IN  [i \in 1..Len(sorted) |-> sorted[i].row]

\* if sort_field: None and "" are falsy.  by is <<>> for None, <<name>> else.
SortFieldSet(by) == Len(by) > 0 /\ by[1] # ""

\* the key of a row: _sortable_value(row.get(sort_field))
RowKey(row, sort_field) == _sortable_value(GetOrNone(row.cells, sort_field))

\* A plausible slip: the direction is applied though no sort field is set.
OtherRowsReversedUnsorted(rows, pinned_ids, sort) ==
  LET other_rows == SelectSeq(rows, LAMBDA row : ~IsPinned(row, pinned_ids))
  IN  IF sort.direction = "desc" THEN Reverse(other_rows) ELSE other_rows

\* lines 96-108: the other rows, sorted when sort.by is set
OtherRows(rows, pinned_ids, sort) ==
  LET other_rows == SelectSeq(rows, LAMBDA row : ~IsPinned(row, pinned_ids))
      entries == [i \in 1..Len(other_rows) |->
                    [key |-> RowKey(other_rows[i], sort.by[1]), row |-> other_rows[i]]]
      sorted == ListSort(entries, sort.direction = "desc")
  IN  IF SortFieldSet(sort.by) THEN [i \in 1..Len(sorted) |-> sorted[i].row]
      ELSE other_rows

\* view is view.rows
_sort_rows(rows, rows_config) ==
  PinnedRows(rows, rows_config.pinned_ids)
    \o OtherRows(rows, rows_config.pinned_ids, rows_config.sort)

-----------------------------------------------------------------------------
(* Display formats.  The templates the model knows:                        *)
(*   "{d:04}"       the value zero-padded to four characters               *)
(*   "{d:invalid}"  a format specifier no type accepts                     *)
(*   "{x}"          a field the call does not pass                         *)
(*   ""             no template                                            *)

\* _coerce_format_value
_coerce_format_value(value) ==
  IF value.t = "str" /\ _NUMERIC_RE(Strip(value.s))
  THEN IF DotAt(Strip(value.s)) = 0
       THEN VInt(ParseScaled(Strip(value.s)) \div Scale)
       ELSE VFloat(ParseScaled(Strip(value.s)))
  ELSE value

Zeros(n) == [i \in 1..n |-> "0"]

\* a number's text, zero-padded behind its sign to width 4
ZeroPad(text) ==
  IF Len(text) >= 4 THEN text
  ELSE IF text[1] = "-" THEN <<"-">> \o Zeros(4 - Len(text)) \o Tail(text)
  ELSE Zeros(4 - Len(text)) \o text

\* template.format(d=value): [raised, s, msg]
Format(template, value) ==
  CASE template = "{d:04}" ->
         [raised |-> FALSE, msg |-> <<>>,
          s |-> CASE value.t \in {"int", "bool"} -> ZeroPad(IntStr(value.n))
                  [] value.t = "float" -> ZeroPad(FloatStr(value.n))
                  [] value.t = "nan" -> ZeroPad(PyStr(value))
                  [] OTHER -> PyStr(value) \o Zeros(IF Len(PyStr(value)) >= 4 THEN 0
                                                      ELSE 4 - Len(PyStr(value)))]
    [] template = "{d:invalid}" ->
         [raised |-> TRUE, s |-> <<>>,
          msg |-> <<"I", "n", "v", "a", "l", "i", "d", " ", "f", "o", "r", "m", "a", "t", " ", "s", "p", "e", "c", "i", "f", "i", "e", "r", " ", "'", "i", "n", "v", "a", "l", "i", "d", "'", " ", "f", "o", "r", " ", "o", "b", "j", "e", "c", "t", " ", "o", "f", " ", "t", "y", "p", "e", " ", "'">>
                    \o TypeName(value) \o <<"'">>]
    [] template = "{x}" ->
         [raised |-> TRUE, s |-> <<>>, msg |-> KeyErrorMsg(<<"x">>)]

FORMAT_ERROR_PREFIX == <<"F", "O", "R", "M", "A", "T", "_", "E", "R", "R", "O", "R", ":", " ">>

\* A plausible slip: None is formatted like any value; format(None, "04")
\* raises a TypeError, "{d:invalid}" a ValueError and "{x}" a KeyError.
FormatCellOfNone(cells, column_name, template) ==
  IF ~Has(cells, column_name) THEN cells
  ELSE LET value == Get(cells, column_name)
           r == Format(template, _coerce_format_value(value))
       IN  Put(cells, column_name,
               VStr(IF value = VNone \/ r.raised THEN FORMAT_ERROR_PREFIX \o r.msg ELSE r.s))

\* A plausible slip: the try is around the loop over the columns, so a
\* failure in one cell makes every cell of the row an error.
FormatCellFailingRow(cells, column_name, template) ==
  IF ~Has(cells, column_name) THEN cells
  ELSE IF Get(cells, column_name) = VNone THEN cells
  ELSE LET r == Format(template, _coerce_format_value(Get(cells, column_name)))
       IN  IF r.raised
           THEN [x \in 1..Len(cells) |->
                   Item(cells[x].k, VStr(FORMAT_ERROR_PREFIX \o r.msg))]
           ELSE Put(cells, column_name, VStr(r.s))

\* lines 118-126: one cell under a non-empty template
FormatCell(cells, column_name, template) ==
  IF ~Has(cells, column_name) THEN cells
  ELSE IF Get(cells, column_name) = VNone THEN cells
  ELSE LET r == Format(template, _coerce_format_value(Get(cells, column_name)))
       IN  Put(cells, column_name,
               VStr(IF r.raised THEN FORMAT_ERROR_PREFIX \o r.msg ELSE r.s))

\* format is view.columns.format, a dict from column name to template
RECURSIVE _apply_display_formats(_, _)
_apply_display_formats(rows, format) ==
  IF Len(format) = 0 THEN rows
  ELSE _apply_display_formats(
         IF Head(format).v = "" THEN rows
         ELSE [i \in 1..Len(rows) |->
                 Row(rows[i].id, FormatCell(rows[i].cells, Head(format).k, Head(format).v))],
         Tail(format))

-----------------------------------------------------------------------------
(* apply_view.                                                             *)

TableResult(all_columns, visible_columns, rows) ==
  [all_columns |-> all_columns, visible_columns |-> visible_columns, rows |-> rows]

\* the rows and columns after lines 21-22
ComputedRows(recs, v) ==
  LET normalized == _normalize_rows(recs)
  IN  _apply_computed_columns(normalized.rows, normalized.columns, v.columns.computed)

\* A plausible slip: the formats are applied before the rows are sorted.
ApplyViewFormatFirst(recs, v) ==
  LET computed == ComputedRows(recs, v)
      ordered_columns == _ordered_columns(v.columns.order, computed.columns)
  IN  TableResult(ordered_columns,
                  VisibleColumns(ordered_columns, v.columns.hidden),
                  _sort_rows(_apply_display_formats(computed.rows, v.columns.format), v.rows))

apply_view(recs, v) ==
  LET computed == ComputedRows(recs, v)
      ordered_columns == _ordered_columns(v.columns.order, computed.columns)
      visible_columns == VisibleColumns(ordered_columns, v.columns.hidden)
      sorted_rows == _sort_rows(computed.rows, v.rows)
  IN  TableResult(ordered_columns, visible_columns,
                  _apply_display_formats(sorted_rows, v.columns.format))


-----------------------------------------------------------------------------
(* The inputs of apply_view the model draws from.                          *)

\* Records as a scan returns them and as a caller may build them: different
\* field sets, a missing path, values of every sort class.
RecordPool ==
  { <<Item("path", VStr(<<"a">>)), Item("step", VInt(10)), Item("loss", VBool(TRUE))>>,
    <<Item("path", VStr(<<"b">>)), Item("step", VStr(<<"1", "0">>)), Item("loss", VFloat(25))>>,
    <<Item("loss", VNaN), Item("path", VStr(<<"a">>))>>,
    <<Item("loss", VStr(<<"1", "0">>)), Item("step", VStr(<<" ", "5">>))>> }

RecordSeqs == UNION {[1..n -> RecordPool] : n \in 0..MaxRecords}

\* rows.pinned_ids: none, one, two, a path twice, a path no record may have
PinnedChoices ==
  { <<>>,
    << <<"b">> >>,
    << <<"b">>, <<"a">> >>,
    << <<"a">>, <<"b">>, <<"a">> >>,
    << <<"c">>, <<"a">>, <<"b">> >> }

SortChoices ==
  {[by |-> <<>>, direction |-> "asc"]}
    \cup [by : {<<"step">>, <<"loss">>, <<"path">>}, direction : {"asc", "desc"}]

\* sort.by unset: None or the empty string, with either direction
UnsortedChoices ==
  [by : {<<>>, <<"">>}, direction : {"asc", "desc"}]

ColumnConfig(order, hidden, format, computed) ==
  [order |-> order, hidden |-> hidden, format |-> format, computed |-> computed]

Computed(name, expr) == [name |-> name, expr |-> expr]

DefaultColumns == ColumnConfig(<<"path">>, <<>>, <<>>, <<>>)

\* Views that vary the row order.
RowViews ==
  [columns : {DefaultColumns,
              ColumnConfig(<<"path">>, <<>>,
                           <<Item("step", "{d:04}"), Item("path", "{x}")>>, <<>>)},
   rows : [pinned_ids : PinnedChoices, sort : SortChoices]]

OrderChoices ==
  {<<"path">>, <<>>, <<"loss", "zz", "path", "loss">>, <<"score", "step">>}

HiddenChoices == {<<>>, <<"step", "score", "zz">>}

FormatChoices ==
  {<<>>, <<Item("step", "{d:04}"), Item("loss", ""), Item("score", "{d:invalid}")>>}

ComputedChoices ==
  { <<>>,
    <<Computed("score", Add1("step")), Computed("next", GetExpr("score"))>>,
    <<Computed("path", Const(VStr(<<"k">>))), Computed("score", GetExpr("zz"))>>,
    <<Computed("step", Add1("loss"))>> }

\* the same with a column that reads one computed after it
CellComputedChoices ==
  ComputedChoices
    \cup {<<Computed("next", GetExpr("score")), Computed("score", Add1("step"))>>}

\* Views that vary the columns; the rows are pinned and sorted by computed
\* columns.
ColumnViews ==
  [columns : [order : OrderChoices, hidden : HiddenChoices,
              format : FormatChoices, computed : ComputedChoices],
   rows : {[pinned_ids |-> << <<"k">> >>,
            sort |-> [by |-> <<"score">>, direction |-> "desc"]]}]

ViewPool == RowViews \cup ColumnViews

\* Views for the claims about the cells: the column views with every
\* computed choice, and views that pin rows and set no sort field.
CellViews ==
  [columns : [order : OrderChoices, hidden : HiddenChoices,
              format : FormatChoices, computed : CellComputedChoices],
   rows : {[pinned_ids |-> << <<"k">> >>,
            sort |-> [by |-> <<"score">>, direction |-> "desc"]]}]
    \cup [columns : {DefaultColumns,
                     ColumnConfig(<<"path">>, <<>>,
                                  <<Item("step", "{d:04}"), Item("path", "{x}")>>, <<>>)},
          rows : [pinned_ids : PinnedChoices, sort : UnsortedChoices]]

NoTable == TableResult(<<>>, <<>>, <<>>)

-----------------------------------------------------------------------------
(* The view store (src/easylogger/view_store.py).  A view file is a JSON   *)
(* document, kept as the tree json.loads reads from it: a node is          *)
(*   [j |-> "null"]                       null                             *)
(*   [j |-> "str",  s]                    a string, s its characters       *)
(*   [j |-> "list", items]                an array                         *)
(*   [j |-> "dict", items]                an object, items [k, v] in order *)
(* In the file the characters of a string are its JSON escape; in a        *)
(* payload (the dict json.loads returns, model_dump builds) they are the   *)
(* string itself.  Object keys are field names and column names of the     *)
(* model's vocabulary, which hold no character that is escaped.            *)

Backslash == "\\"

Quote == "\""

JNull == [j |-> "null"]
JStr(s) == [j |-> "str", s |-> s]
JList(items) == [j |-> "list", items |-> items]
JDict(items) == [j |-> "dict", items |-> items]

\* json: a quote and a backslash are written behind a backslash
RECURSIVE Escape(_)
Escape(s) ==
  IF Len(s) = 0 THEN <<>>
  ELSE (IF Head(s) \in {Quote, Backslash} THEN <<Backslash, Head(s)>> ELSE <<Head(s)>>)
         \o Escape(Tail(s))

\* json: the character behind a backslash stands for itself
RECURSIVE Unescape(_)
Unescape(s) ==
  IF Len(s) = 0 THEN <<>>
  ELSE IF Head(s) = Backslash /\ Len(s) >= 2
       THEN <<s[2]>> \o Unescape(SubSeq(s, 3, Len(s)))
       ELSE <<Head(s)>> \o Unescape(Tail(s))

\* the tree node with every string under it replaced by its image under
\* the escape (encode TRUE, writing a file) or the unescape (reading one)
RECURSIVE Recoded(_, _)
Recoded(node, encode) ==
  CASE node.j = "null" -> node
    [] node.j = "str" -> JStr(IF encode THEN Escape(node.s) ELSE Unescape(node.s))
    [] node.j = "list" ->
         JList([i \in 1..Len(node.items) |-> Recoded(node.items[i], encode)])
    [] node.j = "dict" ->
         JDict([i \in 1..Len(node.items) |->
                  Item(node.items[i].k, Recoded(node.items[i].v, encode))])

\* json.dumps of a payload, as model_dump_json writes it
JsonDumps(payload) == Recoded(payload, TRUE)

\* json.loads of a file
JsonLoads(document) == Recoded(document, FALSE)

\* The words of the model's vocabulary that a view holds as TLA+ strings:
\* column names, templates, directions.
Vocabulary ==
  {"path", "step", "loss", "score", "next", "zz",
   "{d:04}", "{d:invalid}", "{x}", "", "asc", "desc"}

\* the characters of a word
Spelling(word) ==
  CASE word = "{d:04}" -> <<"{", "d", ":", "0", "4", "}">>
    [] word = "{d:invalid}" -> <<"{", "d", ":", "i", "n", "v", "a", "l", "i", "d", "}">>
    [] word = "{x}" -> <<"{", "x", "}">>
    [] word = "" -> <<>>
    [] word = "asc" -> <<"a", "s", "c">>
    [] word = "desc" -> <<"d", "e", "s", "c">>
    [] OTHER -> NameChars(word)

IsWord(chars) == \E word \in Vocabulary : Spelling(word) = chars

\* the word of the characters
Word(chars) == CHOOSE word \in Vocabulary : Spelling(word) = chars

\* the source text of an expression of the model
ExprText(expr) ==
  LET subscript == <<"r", "o", "w", "[", Quote>> \o NameChars(expr.k) \o <<Quote, "]">>
  IN  CASE expr.op = "const" -> <<Quote>> \o expr.c.s \o <<Quote>>
        [] expr.op = "get" -> subscript
        [] expr.op = "add1" -> subscript \o <<" ", "+", " ", "1">>

\* the expressions a stored view may hold
ExprPool ==
  {Const(VStr(<<"k">>))}
    \cup {GetExpr(k) : k \in {"score", "zz"}}
    \cup {Add1(k) : k \in {"step", "loss"}}

\* the expression of a source text
ParseExpr(chars) == CHOOSE expr \in ExprPool : ExprText(expr) = chars

\* models.py: ColumnConfig with its alias, a dict from column name to label
ColumnsWithAlias(order, hidden, alias, format, computed) ==
  [order |-> order, hidden |-> hidden, alias |-> alias, format |-> format,
   computed |-> computed]

SortConfig(by, direction) == [by |-> by, direction |-> direction]

RowConfig(pinned_ids, sort) == [pinned_ids |-> pinned_ids, sort |-> sort]

\* models.py: ViewConfig; name and pattern are strs (characters in order)
ViewConfig(name, pattern, columns, rows) ==
  [name |-> name, pattern |-> pattern, columns |-> columns, rows |-> rows]

JWords(words) == JList([i \in 1..Len(words) |-> JStr(Spelling(words[i]))])

\* view.model_dump(): the payload of a view, every field of every model
model_dump(v) ==
  JDict(<<
    Item("name", JStr(v.name)),
    Item("pattern", JStr(v.pattern)),
    Item("columns", JDict(<<
      Item("order", JWords(v.columns.order)),
      Item("hidden", JWords(v.columns.hidden)),
      Item("alias", JDict([i \in 1..Len(v.columns.alias) |->
                             Item(v.columns.alias[i].k, JStr(v.columns.alias[i].v))])),
      Item("format", JDict([i \in 1..Len(v.columns.format) |->
                              Item(v.columns.format[i].k,
                                   JStr(Spelling(v.columns.format[i].v)))])),
      Item("computed", JList([i \in 1..Len(v.columns.computed) |->
                                JDict(<<Item("name", JStr(Spelling(v.columns.computed[i].name))),
                                        Item("expr", JStr(ExprText(v.columns.computed[i].expr)))>>)]))
    >>)),
    Item("rows", JDict(<<
      Item("pinned_ids", JList([i \in 1..Len(v.rows.pinned_ids) |->
                                  JStr(v.rows.pinned_ids[i])])),
      Item("sort", JDict(<<
        Item("by", IF Len(v.rows.sort.by) = 0 THEN JNull
                   ELSE JStr(Spelling(v.rows.sort.by[1]))),
        Item("direction", JStr(Spelling(v.rows.sort.direction)))>>))
    >>))
  >>)

IsBlank(s) == Len(Strip(s)) = 0

HasSeparator(s) == \E i \in 1..Len(s) : s[i] \in {"/", Backslash}

\* re.compile(value) succeeds; of the patterns of the model those with an
\* unbalanced parenthesis do not compile
CompilesAsRegex(pattern) ==
  Cardinality({i \in 1..Len(pattern) : pattern[i] = "("})
    = Cardinality({i \in 1..Len(pattern) : pattern[i] = ")"})

\* the value of key k in the JSON object items, or default
FieldOr(items, k, default) == IF Has(items, k) THEN Get(items, k) ELSE default

NoView == [name |-> <<>>]

Valid(v) == [ok |-> TRUE, view |-> v, error |-> ""]

Failed(error) == [ok |-> FALSE, view |-> NoView, error |-> error]

\* len(values) == len(set(values))
Distinct(values) == \A i, j \in 1..Len(values) : values[i] = values[j] => i = j

\* A plausible slip: blank alias values counted like the others.
AliasAllAndComputedUnique(alias, computed) ==
  /\ Distinct([i \in 1..Len(alias) |-> alias[i].v])
  /\ Distinct([i \in 1..Len(computed) |-> computed[i].name])

\* ColumnConfig._validate_alias_and_computed: the non-blank alias values
\* and the computed names are unique
AliasAndComputedUnique(alias, computed) ==
  /\ Distinct(SelectSeq([i \in 1..Len(alias) |-> alias[i].v], LAMBDA a : ~IsBlank(a)))
  /\ Distinct([i \in 1..Len(computed) |-> computed[i].name])

\* ViewConfig.model_validate(payload): the view of a payload, with the
\* defaults of the fields it leaves out, or a validation error
model_validate(payload) ==
  LET items == payload.items
      columns == FieldOr(items, "columns", JDict(<<>>)).items
      rows == FieldOr(items, "rows", JDict(<<>>)).items
      sort == FieldOr(rows, "sort", JDict(<<>>)).items
      words(list) == [i \in 1..Len(list.items) |-> Word(list.items[i].s)]
      alias == FieldOr(columns, "alias", JDict(<<>>)).items
      format == FieldOr(columns, "format", JDict(<<>>)).items
      computed == FieldOr(columns, "computed", JList(<<>>)).items
      by == FieldOr(sort, "by", JNull)
      name == Strip(Get(items, "name").s)
      v == ViewConfig(
             name,
             Get(items, "pattern").s,
             ColumnsWithAlias(
               IF Has(columns, "order") THEN words(Get(columns, "order")) ELSE <<"path">>,
               words(FieldOr(columns, "hidden", JList(<<>>))),
               [i \in 1..Len(alias) |-> Item(alias[i].k, alias[i].v.s)],
               [i \in 1..Len(format) |-> Item(format[i].k, Word(format[i].v.s))],
               [i \in 1..Len(computed) |->
                  Computed(Word(Get(computed[i].items, "name").s),
                           ParseExpr(Get(computed[i].items, "expr").s))]),
             RowConfig(
               [i \in 1..Len(FieldOr(rows, "pinned_ids", JList(<<>>)).items) |->
                  Get(rows, "pinned_ids").items[i].s],
               SortConfig(IF by = JNull THEN <<>> ELSE <<Word(by.s)>>,
                          Word(FieldOr(sort, "direction", JStr(Spelling("asc"))).s))))
  IN  IF \/ ~Has(items, "name") \/ ~Has(items, "pattern")
         \/ \E i \in 1..Len(items) :
              items[i].k \notin {"name", "pattern", "columns", "rows"}
         \/ Len(name) = 0 \/ HasSeparator(name)
         \/ ~CompilesAsRegex(Get(items, "pattern").s)
         \/ \E i \in 1..Len(computed) :
              \/ IsBlank(Get(computed[i].items, "name").s)
              \/ IsBlank(Get(computed[i].items, "expr").s)
         \/ FieldOr(sort, "direction", JStr(Spelling("asc"))).s
              \notin {Spelling("asc"), Spelling("desc")}
      THEN Failed("ValidationError")
      ELSE IF ~AliasAndComputedUnique(v.columns.alias, v.columns.computed)
      THEN Failed("ValidationError")
      ELSE Valid(v)

\* A plausible slip: a name only stripped and checked for emptiness.
NormalizeNameWithSeparators(name) ==
  LET normalized == Strip(name)
  IN  IF Len(normalized) = 0
      THEN [ok |-> FALSE, name |-> <<>>]
      ELSE [ok |-> TRUE, name |-> normalized]

\* _normalize_name: [ok, name]
_normalize_name(name) ==
  LET normalized == Strip(name)
  IN  IF Len(normalized) = 0 \/ HasSeparator(normalized)
      THEN [ok |-> FALSE, name |-> <<>>]
      ELSE [ok |-> TRUE, name |-> normalized]

\* The view files under views_dir(root): a function from the stems of the
\* files that exist to their documents.  view_path(root, name) is the file
\* of stem _normalize_name(name).

\* A plausible slip: a field left out of what is written.
SaveViewWithoutFormat(files, v) ==
  LET target == _normalize_name(v.name)
      dumped == model_dump(v)
      columns == Get(dumped.items, "columns")
      written == JDict(Put(dumped.items, "columns",
                           JDict(SelectSeq(columns.items, LAMBDA e : e.k # "format"))))
  IN  IF ~target.ok THEN [ok |-> FALSE, error |-> "ValueError", files |-> files]
      ELSE [ok |-> TRUE, error |-> "",
            files |-> (target.name :> JsonDumps(written)) @@ files]

\* save_view(root, view): [ok, error, files]
save_view(files, v) ==
  LET target == _normalize_name(v.name)
  IN  IF ~target.ok THEN [ok |-> FALSE, error |-> "ValueError", files |-> files]
      ELSE [ok |-> TRUE, error |-> "",
            files |-> (target.name :> JsonDumps(model_dump(v))) @@ files]

\* load_view(root, name): [ok, view, error]
load_view(files, name) ==
  LET target == _normalize_name(name)
  IN  IF ~target.ok THEN Failed("ValueError")
      ELSE IF target.name \notin DOMAIN files THEN Failed("ViewNotFoundError")
      ELSE model_validate(JsonLoads(files[target.name]))

-----------------------------------------------------------------------------
(* The scanner (src/easylogger/scanner.py).  A file of the walk is         *)
(* [path, content]; content is what reading and json.loads give:           *)
(*   [kind |-> "object", items]   a JSON object, items in file order       *)
(*   [kind |-> "malformed"]       unreadable or not JSON                   *)
(*   [kind |-> "other"]           JSON whose root is not an object         *)
(* The value of an item is a Python scalar or NonScalar (a list or dict).  *)

NonScalar == [t |-> "nonscalar", n |-> 0, s |-> <<>>]

Object(items) == [kind |-> "object", items |-> items]

Malformed == [kind |-> "malformed", items |-> <<>>]

NotAnObject == [kind |-> "other", items |-> <<>>]

_is_supported_scalar(value) == value # NonScalar

\* The atoms of a pattern: a character behind a backslash and any other
\* character stand for themselves, "." for any character, "$" for the end;
\* an atom followed by "*" repeats.  Patterns with other operators are not
\* among those of the model.
RECURSIVE Atoms(_)
Atoms(pattern) ==
  IF Len(pattern) = 0 THEN <<>>
  ELSE LET escaped == Head(pattern) = Backslash /\ Len(pattern) >= 2
           width == IF escaped THEN 2 ELSE 1
           starred == Len(pattern) > width /\ pattern[width + 1] = "*"
           atom == [kind |-> IF escaped THEN "char"
                             ELSE IF Head(pattern) = "." THEN "any"
                             ELSE IF Head(pattern) = "$" THEN "end"
                             ELSE "char",
                    c |-> pattern[width],
                    star |-> starred]
       IN  <<atom>> \o Atoms(SubSeq(pattern, width + (IF starred THEN 2 ELSE 1),
                                    Len(pattern)))

\* the atoms match a part of s that starts at position j
RECURSIVE MatchAt(_, _, _)
MatchAt(atoms, s, j) ==
  IF Len(atoms) = 0 THEN TRUE
  ELSE LET atom == Head(atoms)
           accepts == /\ j <= Len(s)
                      /\ atom.kind = "any" \/ (atom.kind = "char" /\ s[j] = atom.c)
       IN  IF atom.kind = "end" THEN j = Len(s) + 1 /\ MatchAt(Tail(atoms), s, j)
           ELSE IF atom.star
                THEN MatchAt(Tail(atoms), s, j) \/ (accepts /\ MatchAt(atoms, s, j + 1))
                ELSE accepts /\ MatchAt(Tail(atoms), s, j + 1)

\* regex.search(rel_path)
Search(pattern, s) == \E j \in 1..(Len(s) + 1) : MatchAt(Atoms(pattern), s, j)

\* lines 80-93: the row of a parsed object
RECURSIVE ScannedRow(_, _)
ScannedRow(row, items) ==
  IF Len(items) = 0 THEN row
  ELSE ScannedRow(Put(row, Head(items).k,
                      IF _is_supported_scalar(Head(items).v) THEN Head(items).v
                      ELSE VNone),
                  Tail(items))

ScanWarning(path, message, field) ==
  [path |-> path, message |-> message, field |-> field]

\* A plausible slip: one warning for a file, however many of its fields are
\* arrays or objects.
FileWarningsOncePerFile(file) ==
  CASE file.content.kind = "malformed" ->
         <<ScanWarning(file.path, "Failed to parse JSON file", "")>>
    [] file.content.kind = "other" ->
         <<ScanWarning(file.path, "JSON root is not an object; file skipped.", "")>>
    [] file.content.kind = "object" ->
         IF \E i \in 1..Len(file.content.items) :
              ~_is_supported_scalar(file.content.items[i].v)
         THEN <<ScanWarning(file.path, "is not a scalar (array/object); coerced to null.",
                            "")>>
         ELSE <<>>

\* lines 65-93: the warnings of a matched file
FileWarnings(file) ==
  CASE file.content.kind = "malformed" ->
         <<ScanWarning(file.path, "Failed to parse JSON file", "")>>
    [] file.content.kind = "other" ->
         <<ScanWarning(file.path, "JSON root is not an object; file skipped.", "")>>
    [] file.content.kind = "object" ->
         LET bad == SelectSeq(file.content.items,
                              LAMBDA e : ~_is_supported_scalar(e.v))
         IN  [i \in 1..Len(bad) |->
                ScanWarning(file.path, "is not a scalar (array/object); coerced to null.",
                            bad[i].k)]

ScanResult(scanned, warnings, summary) ==
  [records |-> scanned, warnings |-> warnings, summary |-> summary]

\* scan_records(root, pattern) when os.walk yields the files of walk in
\* this order
RECURSIVE scan_records(_, _)
scan_records(walk, pattern) ==
  IF Len(walk) = 0
  THEN ScanResult(<<>>, <<>>,
                  [total_files |-> 0, matched_files |-> 0,
                   parsed_records |-> 0, warning_count |-> 0])
  ELSE LET file == walk[Len(walk)]
           before == scan_records(SubSeq(walk, 1, Len(walk) - 1), pattern)
           matched == Search(pattern, file.path)
           scanned == IF matched /\ file.content.kind = "object"
                      THEN Append(before.records,
                                  ScannedRow(<<Item("path", VStr(file.path))>>,
                                             file.content.items))
                      ELSE before.records
           warnings == IF matched THEN before.warnings \o FileWarnings(file)
                       ELSE before.warnings
       IN  ScanResult(scanned, warnings,
                      [total_files |-> before.summary.total_files + 1,
                       matched_files |-> before.summary.matched_files
                                           + (IF matched THEN 1 ELSE 0),
                       parsed_records |-> Len(scanned),
                       warning_count |-> Len(warnings)])

-----------------------------------------------------------------------------
(* The view store, continued: rename_view.                                 *)

\* A plausible slip: the old file left in place.
RenameKeepingOld(files, old_name, new_name) ==
  LET old_normalized == _normalize_name(old_name)
      new_normalized == _normalize_name(new_name)
      failed(error) == [ok |-> FALSE, error |-> error, view |-> NoView, files |-> files]
      found == load_view(files, old_normalized.name)
      renamed == [found.view EXCEPT !.name = new_normalized.name]
  IN  IF ~old_normalized.ok \/ ~new_normalized.ok THEN failed("ValueError")
      ELSE IF old_normalized.name \notin DOMAIN files THEN failed("ViewNotFoundError")
      ELSE IF old_normalized.name # new_normalized.name
              /\ new_normalized.name \in DOMAIN files
      THEN failed("ValueError")
      ELSE IF ~found.ok THEN failed(found.error)
      ELSE [ok |-> TRUE, error |-> "", view |-> renamed,
            files |-> save_view(files, renamed).files]

\* rename_view(root, old_name, new_name): [ok, error, view, files]
rename_view(files, old_name, new_name) ==
  LET old_normalized == _normalize_name(old_name)
      new_normalized == _normalize_name(new_name)
      failed(error) == [ok |-> FALSE, error |-> error, view |-> NoView, files |-> files]
      found == load_view(files, old_normalized.name)
      renamed == [found.view EXCEPT !.name = new_normalized.name]
      written == save_view(files, renamed).files
  IN  IF ~old_normalized.ok \/ ~new_normalized.ok THEN failed("ValueError")
      ELSE IF old_normalized.name = new_normalized.name
      THEN IF found.ok
           THEN [ok |-> TRUE, error |-> "", view |-> found.view, files |-> files]
           ELSE failed(found.error)
      ELSE IF old_normalized.name \notin DOMAIN files THEN failed("ViewNotFoundError")
      ELSE IF new_normalized.name \in DOMAIN files THEN failed("ValueError")
      ELSE IF ~found.ok THEN failed(found.error)
      ELSE [ok |-> TRUE, error |-> "", view |-> renamed,
            files |-> [stem \in DOMAIN written \ {old_normalized.name} |-> written[stem]]]

\* create_view_from(root, name, from_name): [ok, error, view, files]
create_view_from(files, name, from_name) ==
  LET new_name == _normalize_name(name)
      source_name == _normalize_name(from_name)
      failed(error) == [ok |-> FALSE, error |-> error, view |-> NoView, files |-> files]
      source == load_view(files, source_name.name)
      copied == [source.view EXCEPT !.name = new_name.name]
  IN  IF ~new_name.ok \/ ~source_name.ok THEN failed("ValueError")
      ELSE IF new_name.name \in DOMAIN files THEN failed("ValueError")
      ELSE IF ~source.ok THEN failed(source.error)
      ELSE [ok |-> TRUE, error |-> "", view |-> copied,
            files |-> save_view(files, copied).files]

-----------------------------------------------------------------------------
(* The HTTP layer (src/easylogger/web_api.py).  The state of create_app is *)
(* active_view_name and the two caches, dicts keyed by view name and       *)
(* modelled as functions from the names that have an entry.                *)

\* the files under the root: the log files, a function from the paths that
\* exist to their contents, and the view files under .easylogger/views
NoLogs == [path \in {} |-> Malformed]

ViewFilePath(stem) ==
  <<".", "e", "a", "s", "y", "l", "o", "g", "g", "e", "r", "/",
    "v", "i", "e", "w", "s", "/">> \o stem \o <<".", "j", "s", "o", "n">>

\* what json.loads gives the scanner for a view file
ViewFileContent(document) ==
  LET items == JsonLoads(document).items
  IN  Object([i \in 1..Len(items) |->
                Item(items[i].k,
                     CASE items[i].v.j = "str" -> VStr(items[i].v.s)
                       [] items[i].v.j = "null" -> VNone
                       [] OTHER -> NonScalar)])

\* the orders in which a directory may list the members of a set
Listings(members) ==
  {order \in [1..Cardinality(members) -> members] :
     \A i, j \in 1..Cardinality(members) : order[i] = order[j] => i = j}

\* os.walk(root, topdown=True): the files of the root in the order of its
\* listing, then those of .easylogger/views in the order of its listing
Walks(logs, views) ==
  {[i \in 1..Len(paths) |-> [path |-> paths[i], content |-> logs[paths[i]]]]
     \o [i \in 1..Len(stems) |->
           [path |-> ViewFilePath(stems[i]), content |-> ViewFileContent(views[stems[i]])]] :
   paths \in Listings(DOMAIN logs), stems \in Listings(DOMAIN views)}

NoCache == [name \in {} |-> <<>>]

\* a ScanRequest; an absent or empty view_name is <<>>, an absent view is
\* NoView.  The other requests give old_name and new_name.
Request(op, view_name, payload_view, old_name, new_name) ==
  [op |-> op, view_name |-> view_name, view |-> payload_view,
   old_name |-> old_name, new_name |-> new_name]

NoRequest == Request("", <<>>, NoView, <<>>, <<>>)

NoSummary ==
  [total_files |-> 0, matched_files |-> 0, parsed_records |-> 0, warning_count |-> 0]

Response(status, summary, warnings, columns, rows, answered) ==
  [status |-> status, summary |-> summary, warnings |-> warnings,
   columns |-> columns, rows |-> rows, view |-> answered]

NoColumns == [all |-> <<>>, visible |-> <<>>, hidden |-> <<>>, alias |-> <<>>]

\* an HTTPException of this status
HTTPException(status) == Response(status, NoSummary, <<>>, NoColumns, <<>>, NoView)

NoResponse == HTTPException(0)

\* _resolve_view_and_name: [status, name, view]
_resolve_view_and_name(req, active, files) ==
  LET target_name == IF Len(req.view_name) > 0 THEN req.view_name ELSE active
      found == load_view(files, target_name)
  IN  IF req.view # NoView
      THEN IF Len(req.view_name) > 0 /\ req.view_name # req.view.name
           THEN [status |-> 400, name |-> <<>>, view |-> NoView]
           ELSE [status |-> 200, name |-> req.view.name, view |-> req.view]
      ELSE IF found.ok THEN [status |-> 200, name |-> target_name, view |-> found.view]
      ELSE IF found.error = "ViewNotFoundError"
      THEN [status |-> 404, name |-> <<>>, view |-> NoView]
      ELSE [status |-> 500, name |-> <<>>, view |-> NoView]

\* _response_from_records
_response_from_records(recs, active_view, summary, warnings) ==
  LET result == apply_view(recs, active_view)
  IN  Response(200, summary, warnings,
               [all |-> result.all_columns, visible |-> result.visible_columns,
                hidden |-> active_view.columns.hidden,
                alias |-> active_view.columns.alias],
               result.rows, NoView)

\* the dict d after d[name] = value
Stored(d, name, value) == (name :> value) @@ d

\* the dict d after d[new_name] = d.pop(old_name), done when old_name in d
Moved(d, old_name, new_name) ==
  IF old_name \in DOMAIN d
  THEN (new_name :> d[old_name]) @@ [name \in DOMAIN d \ {old_name} |-> d[name]]
  ELSE d

\* scan_records has not been called
NoScan ==
  [pattern |-> <<>>, walk |-> <<>>,
   result |-> ScanResult(<<>>, <<>>,
                         [total_files |-> 0, matched_files |-> 0,
                          parsed_records |-> 0, warning_count |-> 0])]

\* nothing is done with the HTTP layer
ApiIdle ==
  /\ log_files = NoLogs
  /\ active_view_name = <<>>
  /\ cached_records = NoCache
  /\ cached_scan_meta = NoCache
  /\ request = NoRequest
  /\ response = NoResponse
  /\ requests = 0
  /\ last_scan = NoCache
  /\ scan_call = NoScan

-----------------------------------------------------------------------------
(* The state machine: a caller holds records and a view and calls          *)
(* apply_view once.                                                        *)

NoFiles == [stem \in {} |-> JNull]

NoLoad == [name |-> <<>>, result |-> Failed("")]

\* a call of the view store or of ViewConfig.model_validate: the names it
\* was given, the payload (of a construction), whether it returned, the
\* exception it raised and the view it returned
Call(op, names, payload, ok, error, returned) ==
  [op |-> op, names |-> names, payload |-> payload, ok |-> ok, error |-> error,
   view |-> returned]

\* the view store has not been called
NoCall == Call("", <<>>, JNull, TRUE, "", NoView)

\* nothing is done with the view store
StoreIdle ==
  /\ view_files = NoFiles
  /\ saved = NoView
  /\ loaded = NoLoad
  /\ called = NoCall

Init ==
  /\ records \in RecordSeqs
  /\ view \in ViewPool
  /\ table = NoTable
  /\ second = NoTable
  /\ pc = "ready"
  /\ StoreIdle
  /\ ApiIdle

\* The caller's dicts after a call, had the rows been the caller's dicts
\* themselves: every write of normalization, of the computed columns and of
\* the formats would show in them.
CallerRecordsAliased(recs, v) ==
  LET rows == apply_view(recs, v).rows
  IN  [i \in 1..Len(recs) |->
         rows[CHOOSE x \in 1..Len(rows) : rows[x].id = i].cells]

\* The caller's dicts after apply_view(recs, v).  Line 39 makes every row a
\* new dict, copied = dict(record), and every later write (lines 40, 51, 68,
\* 124, 126) goes to a row; the values are scalars, so a copy shares nothing
\* that can change.
CallerRecords(recs, v) == recs

\* table = apply_view(records, view); view is only read
ApplyView ==
  /\ pc = "ready"
  /\ table' = apply_view(records, view)
  /\ records' = CallerRecords(records, view)
  /\ pc' = "done"
  /\ UNCHANGED <<view, second>>
  /\ UNCHANGED <<storeVars, apiVars>>

\* the caller calls apply_view again with the dicts and the view it holds
ApplyViewAgain ==
  /\ pc = "done"
  /\ second' = apply_view(records, view)
  /\ records' = CallerRecords(records, view)
  /\ pc' = "again"
  /\ UNCHANGED <<view, table>>
  /\ UNCHANGED <<storeVars, apiVars>>

Next == ApplyView

Spec == Init /\ [][Next]_vars

\* One call, with the views for the claims about the cells.
CellsInit ==
  /\ records \in RecordSeqs
  /\ view \in CellViews
  /\ table = NoTable
  /\ second = NoTable
  /\ pc = "ready"
  /\ StoreIdle
  /\ ApiIdle

CellsSpec == CellsInit /\ [][Next]_vars

\* Two calls in a row, on record lists one shorter than MaxRecords.
CallsInit ==
  /\ Init
  /\ Len(records) < MaxRecords

CallsNext == ApplyView \/ ApplyViewAgain

CallsSpec == CallsInit /\ [][CallsNext]_vars


-----------------------------------------------------------------------------
(* The state machine of the view store: a caller constructs views, saves   *)
(* them and loads them by name.                                            *)

\* what a caller may hand to ViewConfig.model_validate
NamePool ==
  {<<"a">>, <<" ", "b", " ">>, <<Quote, "a">>, <<"a", "/">>, <<" ">>}

PatternPool ==
  {<<".", "*">>, <<".", "*", Backslash, ".", "j", "s", "o", "n", "$">>, <<"(">>}

PlainSetup ==
  [columns |-> ColumnsWithAlias(<<"path">>, <<>>, <<>>, <<>>, <<>>),
   rows |-> RowConfig(<<>>, SortConfig(<<>>, "asc"))]

FullSetup ==
  [columns |-> ColumnsWithAlias(
                 <<"loss", "path">>, <<"step">>,
                 <<Item("loss", <<"L", Quote>>), Item("step", <<" ">>), Item("zz", <<>>)>>,
                 <<Item("step", "{d:04}"), Item("loss", "")>>,
                 <<Computed("score", Add1("step")), Computed("next", GetExpr("score"))>>),
   rows |-> RowConfig(<< <<"a">>, <<"b", Backslash, "c">> >>, SortConfig(<<"step">>, "desc"))]

PayloadPool ==
  {model_dump(ViewConfig(name, pattern, setup.columns, setup.rows)) :
     name \in NamePool, pattern \in PatternPool, setup \in {PlainSetup, FullSetup}}

\* the views model_validate constructs from them
ValidatedViews ==
  {model_validate(payload).view :
     payload \in {p \in PayloadPool : model_validate(p).ok}}

\* nothing is done with apply_view
EngineIdle ==
  /\ records = <<>>
  /\ view = [columns |-> DefaultColumns,
              rows |-> RowConfig(<<>>, SortConfig(<<>>, "asc"))]
  /\ table = NoTable
  /\ second = NoTable
  /\ pc = "idle"

StoreInit ==
  /\ EngineIdle
  /\ StoreIdle
  /\ ApiIdle

\* save_view(root, v) for a validated view v
SaveView(v) ==
  /\ view_files' = save_view(view_files, v).files
  /\ saved' = v
  /\ loaded' = NoLoad
  /\ UNCHANGED called
  /\ UNCHANGED <<engineVars, apiVars>>

\* load_view(root, name)
LoadView(name) ==
  /\ loaded' = [name |-> name, result |-> load_view(view_files, name)]
  /\ UNCHANGED <<view_files, saved, called>>
  /\ UNCHANGED <<engineVars, apiVars>>

StoreNext ==
  \/ \E v \in ValidatedViews : SaveView(v)
  \/ \E name \in NamePool : LoadView(name)

StoreSpec == StoreInit /\ [][StoreNext]_vars

-----------------------------------------------------------------------------
(* The state machine of the view store's callers: views are constructed,   *)
(* saved, copied and renamed, under names of every kind.                   *)

\* the names a caller may give: plain, padded, blank, with a separator
OpNames ==
  {<<"a">>, <<"a", " ">>, <<" ", "b", " ">>, <<"c">>, <<"a", "/">>, <<Backslash, "c">>,
   <<" ">>}

\* alias dicts: none; two equal labels; two blank labels of the same
\* spelling; labels that differ by a blank; empty labels beside a label;
\* two equal labels apart
AliasPool ==
  {<<>>,
   <<Item("loss", <<"L">>), Item("step", <<"L">>)>>,
   <<Item("loss", <<" ">>), Item("step", <<" ">>)>>,
   <<Item("loss", <<"L">>), Item("step", <<" ", "L">>)>>,
   <<Item("loss", <<>>), Item("step", <<>>), Item("zz", <<"L">>)>>,
   <<Item("loss", <<"L">>), Item("step", <<>>), Item("zz", <<"L">>)>>}

\* computed lists: none; two names; one name twice
ComputedPool ==
  {<<>>,
   <<Computed("score", Add1("step")), Computed("next", GetExpr("score"))>>,
   <<Computed("score", Add1("step")), Computed("score", GetExpr("zz"))>>}

\* what the callers hand to ViewConfig.model_validate
ConstructPool ==
  {model_dump(ViewConfig(<<"a">>, <<".", "*">>,
                         ColumnsWithAlias(<<"path">>, <<>>, alias, <<>>, computed),
                         PlainSetup.rows)) :
     alias \in AliasPool, computed \in ComputedPool}
  \cup {model_dump(ViewConfig(name, <<".", "*">>, PlainSetup.columns, PlainSetup.rows)) :
           name \in OpNames}

\* the views handed to save_view: constructed ones, and constructed ones
\* whose name was assigned afterwards (an assignment is not validated)
SavePool ==
  LET constructed ==
        {model_validate(model_dump(ViewConfig(name, <<".", "*">>, setup.columns,
                                              setup.rows))).view :
           name \in {<<"a">>, <<" ", "b", " ">>}, setup \in {PlainSetup, FullSetup}}
  IN  constructed
        \cup {[v EXCEPT !.name = name] :
                 v \in {w \in constructed : w.columns = PlainSetup.columns},
                 name \in {<<"a", "/">>, <<" ">>, <<" ", "b", " ">>}}

OpsInit ==
  /\ EngineIdle
  /\ StoreIdle
  /\ ApiIdle

\* ViewConfig.model_validate(payload)
Construct(payload) ==
  /\ \E result \in {model_validate(payload)} :
       called' = Call("construct", <<Get(payload.items, "name").s>>, payload,
                      result.ok, result.error, result.view)
  /\ UNCHANGED <<view_files, saved, loaded>>
  /\ UNCHANGED <<engineVars, apiVars>>

\* save_view(root, v)
Save(v) ==
  /\ \E result \in {save_view(view_files, v)} :
       /\ view_files' = result.files
       /\ called' = Call("save", <<v.name>>, JNull, result.ok, result.error,
                         IF result.ok THEN v ELSE NoView)
  /\ UNCHANGED <<saved, loaded>>
  /\ UNCHANGED <<engineVars, apiVars>>

\* create_view_from(root, name, from_name)
CreateViewFrom(name, from_name) ==
  /\ \E result \in {create_view_from(view_files, name, from_name)} :
       /\ view_files' = result.files
       /\ called' = Call("create", <<name, from_name>>, JNull, result.ok,
                         result.error, result.view)
  /\ UNCHANGED <<saved, loaded>>
  /\ UNCHANGED <<engineVars, apiVars>>

\* rename_view(root, old_name, new_name)
RenameView(old_name, new_name) ==
  /\ \E result \in {rename_view(view_files, old_name, new_name)} :
       /\ view_files' = result.files
       /\ called' = Call("rename", <<old_name, new_name>>, JNull, result.ok,
                         result.error, result.view)
  /\ UNCHANGED <<saved, loaded>>
  /\ UNCHANGED <<engineVars, apiVars>>

OpsNext ==
  \/ \E payload \in ConstructPool : Construct(payload)
  \/ \E v \in SavePool : Save(v)
  \/ \E name, from_name \in OpNames : CreateViewFrom(name, from_name)
  \/ \E old_name, new_name \in OpNames : RenameView(old_name, new_name)

OpsSpec == OpsInit /\ [][OpsNext]_vars

-----------------------------------------------------------------------------
(* The state machine of the HTTP layer: an app created for view "a" over   *)
(* a root with two stored views and two log files; clients scan, render    *)
(* and rename while the log files are rewritten.                           *)

\* default_view(name, pattern)
default_view(name, pattern) ==
  model_validate(model_dump(ViewConfig(name, pattern, PlainSetup.columns,
                                       PlainSetup.rows))).view

LogA == <<"a", ".", "s">>

LogB == <<"b", ".", "s">>

StepIs(n) == Object(<<Item("step", VInt(n))>>)

ContentPool == {StepIs(1), StepIs(9)}

\* the view a client sends along: view "a" as edited and not yet saved
PayloadView == default_view(<<"a">>, <<Backslash, ".", "s", "$">>)

ScanRequests(op) ==
  {Request(op, <<>>, NoView, <<>>, <<>>),
   Request(op, <<"b">>, NoView, <<>>, <<>>),
   Request(op, <<"c">>, NoView, <<>>, <<>>),
   Request(op, <<>>, PayloadView, <<>>, <<>>),
   Request(op, <<"b">>, PayloadView, <<>>, <<>>)}

\* the renames asked for: old_name, new_name
RenamePool == {<< <<"a">>, <<"c">> >>, << <<"c">>, <<"a">> >>, << <<"a">>, <<"b">> >>}

ApiInit ==
  /\ EngineIdle
  /\ view_files =
       save_view(save_view(NoFiles,
                           default_view(<<"a">>, <<"a", Backslash, ".", "s", "$">>)).files,
                 default_view(<<"b">>, <<"b", Backslash, ".", "s", "$">>)).files
  /\ saved = NoView
  /\ loaded = NoLoad
  /\ called = NoCall
  /\ scan_call = NoScan
  /\ log_files = (LogA :> StepIs(1)) @@ (LogB :> StepIs(1))
  /\ active_view_name = <<"a">>
  /\ cached_records = NoCache
  /\ cached_scan_meta = NoCache
  /\ request = NoRequest
  /\ response = NoResponse
  /\ requests = 0
  /\ last_scan = NoCache

\* a request that ends in an HTTPException and changes nothing
Refused(req, status) ==
  /\ request' = req
  /\ response' = HTTPException(status)
  /\ requests' = requests + 1
  /\ UNCHANGED <<log_files, active_view_name, cached_records, cached_scan_meta,
                 last_scan, view_files>>

\* POST /api/scan; the walk is the order in which the directories list
\* their files this time
PostScan(req) ==
  /\ requests < MaxRequests
  /\ \E resolved \in {_resolve_view_and_name(req, active_view_name, view_files)} :
       IF resolved.status # 200 THEN Refused(req, resolved.status)
       ELSE \E walk \in Walks(log_files, view_files) :
            \E scan_result \in {scan_records(walk, resolved.view.pattern)} :
              /\ active_view_name' = resolved.name
              /\ cached_records' = Stored(cached_records, resolved.name, scan_result.records)
              /\ cached_scan_meta' =
                   Stored(cached_scan_meta, resolved.name,
                          [summary |-> scan_result.summary,
                           warnings |-> scan_result.warnings])
              /\ last_scan' = Stored(last_scan, resolved.name, scan_result.records)
              /\ request' = req
              /\ response' = _response_from_records(scan_result.records, resolved.view,
                                                    scan_result.summary,
                                                    scan_result.warnings)
              /\ requests' = requests + 1
              /\ UNCHANGED <<log_files, view_files>>
  /\ UNCHANGED <<saved, loaded, called, scan_call>>
  /\ UNCHANGED engineVars

\* A plausible slip: a render that always takes what a scan gives now.
RenderedFresh(cache, name, fresh) == fresh

\* lines 172-174 and 195: the records post_render renders for name, fresh
\* being what a scan gives now
Rendered(cache, name, fresh) ==
  IF name \notin DOMAIN cache THEN fresh ELSE cache[name]

\* A plausible slip: a render that stores what a scan gives now whenever
\* it differs from the entry.
CacheAfterRefresh(cache, name, fresh) == Stored(cache, name, fresh)

\* lines 172 and 179: cached_records after post_render for name
CacheAfterRender(cache, name, fresh) ==
  IF name \notin DOMAIN cache THEN Stored(cache, name, fresh) ELSE cache

\* lines 183-194: the summary and warnings post_render answers with
RenderedMeta(meta, cache, name, scan_result) ==
  IF name \notin DOMAIN cache
  THEN [summary |-> scan_result.summary, warnings |-> scan_result.warnings]
  ELSE IF name \in DOMAIN meta THEN meta[name]
  ELSE [summary |-> [total_files |-> 0, matched_files |-> 0,
                     parsed_records |-> Len(cache[name]), warning_count |-> 0],
        warnings |-> <<>>]

\* POST /api/render
PostRender(req) ==
  /\ requests < MaxRequests
  /\ \E resolved \in {_resolve_view_and_name(req, active_view_name, view_files)} :
       IF resolved.status # 200 THEN Refused(req, resolved.status)
       ELSE \E walk \in Walks(log_files, view_files) :
            \E scan_result \in {scan_records(walk, resolved.view.pattern)} :
            \E meta \in {RenderedMeta(cached_scan_meta, cached_records,
                                      resolved.name, scan_result)} :
              /\ active_view_name' = resolved.name
              /\ cached_records' =
                   CacheAfterRender(cached_records, resolved.name, scan_result.records)
              /\ cached_scan_meta' =
                   IF resolved.name \notin DOMAIN cached_records
                   THEN Stored(cached_scan_meta, resolved.name, meta)
                   ELSE cached_scan_meta
              /\ request' = req
              /\ response' =
                   _response_from_records(
                     Rendered(cached_records, resolved.name, scan_result.records),
                     resolved.view, meta.summary, meta.warnings)
              /\ requests' = requests + 1
              /\ UNCHANGED <<log_files, view_files, last_scan>>
  /\ UNCHANGED <<saved, loaded, called, scan_call>>
  /\ UNCHANGED engineVars

\* POST /api/views/rename
PostRenameView(old_name, new_name) ==
  /\ requests < MaxRequests
  /\ \E req \in {Request("rename", <<>>, NoView, old_name, new_name)} :
     \E renamed \in {rename_view(view_files, old_name, new_name)} :
       IF ~renamed.ok
       THEN Refused(req, IF renamed.error = "ViewNotFoundError" THEN 404 ELSE 400)
       ELSE   /\ view_files' = renamed.files
              /\ active_view_name' =
                   IF active_view_name = old_name THEN new_name ELSE active_view_name
              /\ cached_records' = Moved(cached_records, old_name, new_name)
              /\ cached_scan_meta' = Moved(cached_scan_meta, old_name, new_name)
              /\ request' = req
              /\ response' = Response(200, NoSummary, <<>>, NoColumns, <<>>, renamed.view)
              /\ requests' = requests + 1
              /\ UNCHANGED <<log_files, last_scan>>
  /\ UNCHANGED <<saved, loaded, called, scan_call>>
  /\ UNCHANGED engineVars

\* a log file is written anew, by whoever produces the logs
WriteFile(path, content) ==
  /\ log_files[path] # content
  /\ log_files' = Stored(log_files, path, content)
  /\ request' = Request("write", <<>>, NoView, <<>>, <<>>)
  /\ UNCHANGED <<active_view_name, cached_records, cached_scan_meta, response,
                 requests, last_scan, scan_call>>
  /\ UNCHANGED storeVars
  /\ UNCHANGED engineVars

ApiNext ==
  \/ \E req \in ScanRequests("scan") : PostScan(req)
  \/ \E req \in ScanRequests("render") : PostRender(req)
  \/ \E names \in RenamePool : PostRenameView(names[1], names[2])
  \/ \E content \in ContentPool : WriteFile(LogA, content)

ApiSpec == ApiInit /\ [][ApiNext]_vars

-----------------------------------------------------------------------------
(* The state machine of the HTTP layer's view endpoints: clients open      *)
(* views by name and save payloads, to the active view and by name.        *)

\* the names a client puts in a URL: stored views, a padded name, a view
\* that does not exist
UrlNames == {<<"a">>, <<"b">>, <<" ", "a", " ">>, <<"c">>}

\* the bodies a client posts: views named a, b and " a ", with the pattern
\* view a has and with another, and a body whose name holds a separator
BodyPool ==
  {model_dump(ViewConfig(name, pattern, PlainSetup.columns, PlainSetup.rows)) :
     name \in {<<"a">>, <<"b">>, <<" ", "a", " ">>, <<"a", "/">>},
     pattern \in {<<"a", Backslash, ".", "s", "$">>, <<".", "*">>}}

\* A plausible slip: the view written before its name is compared.
SavedUnchecked(files, target, validated) ==
  IF ~validated.ok THEN [status |-> 422, files |-> files]
  ELSE [status |-> IF validated.view.name # target THEN 400 ELSE 200,
        files |-> save_view(files, validated.view).files]

\* post_view (lines 95-100) and save_view_by_name (143-148) for the target
\* name, on the outcome of validating the body as a ViewConfig, which the
\* framework does before it calls the handler and answers with 422 when it
\* fails: [status, files]
SavedUnder(files, target, validated) ==
  IF ~validated.ok THEN [status |-> 422, files |-> files]
  ELSE IF validated.view.name # target THEN [status |-> 400, files |-> files]
  ELSE [status |-> 200, files |-> save_view(files, validated.view).files]

\* the answer to a request about one view
ViewAnswer(status, answered) ==
  Response(status, NoSummary, <<>>, NoColumns, <<>>, answered)

\* POST /api/view
PostView(body) ==
  /\ requests < MaxRequests
  /\ \E validated \in {model_validate(body)} :
     \E outcome \in {SavedUnder(view_files, active_view_name, validated)} :
       /\ view_files' = outcome.files
       /\ active_view_name' =
            IF outcome.status = 200 THEN validated.view.name ELSE active_view_name
       /\ request' = Request("post_view", <<>>, validated.view, <<>>, <<>>)
       /\ response' = ViewAnswer(outcome.status,
                                 IF outcome.status = 200 THEN validated.view ELSE NoView)
  /\ requests' = requests + 1
  /\ UNCHANGED <<log_files, cached_records, cached_scan_meta, last_scan>>
  /\ UNCHANGED <<saved, loaded, called, scan_call>>
  /\ UNCHANGED engineVars

\* POST /api/views/{name}
SaveViewByName(name, body) ==
  /\ requests < MaxRequests
  /\ \E validated \in {model_validate(body)} :
     \E outcome \in {SavedUnder(view_files, name, validated)} :
       /\ view_files' = outcome.files
       /\ active_view_name' = IF outcome.status = 200 THEN name ELSE active_view_name
       /\ request' = Request("save_view_by_name", name, validated.view, <<>>, <<>>)
       /\ response' = ViewAnswer(outcome.status,
                                 IF outcome.status = 200 THEN validated.view ELSE NoView)
  /\ requests' = requests + 1
  /\ UNCHANGED <<log_files, cached_records, cached_scan_meta, last_scan>>
  /\ UNCHANGED <<saved, loaded, called, scan_call>>
  /\ UNCHANGED engineVars

\* GET /api/views/{name}: the name becomes the active one before the view
\* is looked for
GetViewByName(name) ==
  /\ requests < MaxRequests
  /\ active_view_name' = name
  /\ \E found \in {load_view(view_files, name)} :
       response' = IF found.ok THEN ViewAnswer(200, found.view)
                   ELSE IF found.error = "ViewNotFoundError" THEN HTTPException(404)
                   ELSE HTTPException(500)
  /\ request' = Request("get_view_by_name", name, NoView, <<>>, <<>>)
  /\ requests' = requests + 1
  /\ UNCHANGED <<log_files, cached_records, cached_scan_meta, last_scan>>
  /\ UNCHANGED storeVars
  /\ UNCHANGED scan_call
  /\ UNCHANGED engineVars

ViewsNext ==
  \/ \E body \in BodyPool : PostView(body)
  \/ \E name \in UrlNames : \E body \in BodyPool : SaveViewByName(name, body)
  \/ \E name \in UrlNames : GetViewByName(name)

ViewsSpec == ApiInit /\ [][ViewsNext]_vars

-----------------------------------------------------------------------------
(* The state machine of the HTTP layer under renames: clients scan and     *)
(* render the active view and view "c", and rename views, giving the names *)
(* plain or with a blank before or after them, as typed.                   *)

TypedRenamePool ==
  {<< <<"a">>, <<"c">> >>, << <<"a">>, <<"c", " ">> >>, << <<" ", "a">>, <<"c">> >>,
   << <<"c">>, <<"a">> >>}

TypedRequests(op) ==
  {Request(op, <<>>, NoView, <<>>, <<>>), Request(op, <<"c">>, NoView, <<>>, <<>>)}

RenamesNext ==
  \/ \E req \in TypedRequests("scan") : PostScan(req)
  \/ \E req \in TypedRequests("render") : PostRender(req)
  \/ \E names \in TypedRenamePool : PostRenameView(names[1], names[2])
  \/ \E content \in ContentPool : WriteFile(LogA, content)

RenamesSpec == ApiInit /\ [][RenamesNext]_vars

-----------------------------------------------------------------------------
(* The state machine of the scanner's callers: scan_records is called on   *)
(* a root that holds files of every kind, in the root, in a directory and  *)
(* in an ignored directory.                                                *)

DEFAULT_IGNORED_DIRS ==
  {<<".", "g", "i", "t">>,
   <<"n", "o", "d", "e", "_", "m", "o", "d", "u", "l", "e", "s">>,
   <<".", "v", "e", "n", "v">>}

\* the parts of a relative path between its "/"
RECURSIVE Segments(_)
Segments(path) ==
  IF \A i \in 1..Len(path) : path[i] # "/" THEN <<path>>
  ELSE LET cut == CHOOSE i \in 1..Len(path) :
                    path[i] = "/" /\ \A j \in 1..(i - 1) : path[j] # "/"
       IN  <<SubSeq(path, 1, cut - 1)>> \o Segments(SubSeq(path, cut + 1, Len(path)))

\* line 54: the walk does not descend into a directory named in ignored
Pruned(path) ==
  \E i \in 1..(Len(Segments(path)) - 1) : Segments(path)[i] \in DEFAULT_IGNORED_DIRS

\* the files of the directories, one directory after the other
RECURSIVE Chained(_, _)
Chained(dir_order, listing) ==
  IF Len(dir_order) = 0 THEN <<>>
  ELSE listing[Head(dir_order)] \o Chained(Tail(dir_order), listing)

\* os.walk(root, topdown=True) over files that lie in the root or in a
\* directory of the root: the files of the root in the order of its
\* listing, then the directories that are not ignored in the order of the
\* listing, each with its files in the order of its own listing
TreeWalks(files) ==
  LET kept == {path \in DOMAIN files : ~Pruned(path)}
      in_root == {path \in kept : Len(Segments(path)) = 1}
      dirs == {Segments(path)[1] : path \in kept \ in_root}
      FilesIn(dir) == {path \in kept \ in_root : Segments(path)[1] = dir}
      listings == {listing \in [dirs -> UNION {Listings(FilesIn(dir)) : dir \in dirs}] :
                     \A dir \in dirs : listing[dir] \in Listings(FilesIn(dir))}
  IN  {[i \in 1..Len(paths) |-> [path |-> paths[i], content |-> files[paths[i]]]] :
         paths \in {root_order \o Chained(dir_order, listing) :
                      root_order \in Listings(in_root),
                      dir_order \in Listings(dirs),
                      listing \in listings}}

NestedLog == <<"l", "/", "b", ".", "s">>

IgnoredLog == <<".", "g", "i", "t", "/", "c", ".", "s">>

\* a file whose JSON object has a key "path"
WithPathKey == Object(<<Item("path", VStr(<<"x">>)), Item("step", VInt(2))>>)

\* files with fields that are arrays or objects
WithNonScalars ==
  Object(<<Item("step", VInt(3)), Item("meta", NonScalar), Item("tags", NonScalar)>>)

WithNonScalarPath == Object(<<Item("path", NonScalar)>>)

\* the roots scanned: each file is absent or has one of its contents
ScanRoots ==
  LET choices ==
        [a : {Malformed, StepIs(1), WithPathKey, WithNonScalars, WithNonScalarPath,
              NotAnObject},
         b : {Malformed, StepIs(1)},
         l : {NotAnObject, StepIs(1), WithPathKey, WithNonScalars},
         c : {StepIs(1)},
         present : SUBSET {LogA, LogB, NestedLog, IgnoredLog}]
  IN  {[path \in c.present |->
          CASE path = LogA -> c.a [] path = LogB -> c.b
            [] path = NestedLog -> c.l [] path = IgnoredLog -> c.c] :
       c \in choices}

ScanPatterns == {<<Backslash, ".", "s", "$">>, <<"b">>}

ScanInit ==
  /\ EngineIdle
  /\ StoreIdle
  /\ log_files \in ScanRoots
  /\ active_view_name = <<>>
  /\ cached_records = NoCache
  /\ cached_scan_meta = NoCache
  /\ request = NoRequest
  /\ response = NoResponse
  /\ requests = 0
  /\ last_scan = NoCache
  /\ scan_call = NoScan

\* scan_records(root, pattern); the walk is the order in which the
\* directories list their members this time
ScanRecords(pattern, walk) ==
  /\ scan_call' = [pattern |-> pattern, walk |-> walk,
                   result |-> scan_records(walk, pattern)]
  /\ UNCHANGED <<log_files, active_view_name, cached_records, cached_scan_meta,
                 request, response, requests, last_scan>>
  /\ UNCHANGED <<engineVars, storeVars>>

ScanNext == \E pattern \in ScanPatterns : \E walk \in TreeWalks(log_files) :
              ScanRecords(pattern, walk)

ScanSpec == ScanInit /\ [][ScanNext]_vars

-----------------------------------------------------------------------------
(* The claims about the columns.                                           *)

NoDuplicates(s) == \A i, j \in 1..Len(s) : s[i] = s[j] => i = j

IndexOf(s, x) == CHOOSE i \in 1..Len(s) : s[i] = x /\ \A j \in 1..(i - 1) : s[j] # x

\* s keeps the relative order its elements have in whole
InOrderOf(s, whole) ==
  \A a, b \in 1..Len(s) : a < b => IndexOf(whole, s[a]) < IndexOf(whole, s[b])

\* C1: every row of the returned table has exactly the names of all_columns
\* as its keys, no column missing and no key extra, with computed columns
\* added and display formats applied.
C1_RowKeysAreAllColumns ==
  pc = "done" =>
    \A i \in 1..Len(table.rows) :
      /\ KeySet(table.rows[i].cells) = Range(table.all_columns)
      /\ NoDuplicates(Keys(table.rows[i].cells))

\* C1 happens: records of different field sets, one without a step, a
\* computed column added and a cell formatted.
C1_Witness ==
  /\ pc = "done"
  /\ \E i, j \in 1..Len(records) : KeySet(records[i]) # KeySet(records[j])
  /\ Contains(table.all_columns, "next")
  /\ \E i \in 1..Len(table.rows) :
       GetOrNone(table.rows[i].cells, "step") = VStr(<<"0", "0", "1", "0">>)
  /\ \E i \in 1..Len(table.rows) :
       /\ ~Has(records[table.rows[i].id], "step")
       /\ GetOrNone(table.rows[i].cells, "step") = VNone

\* C2 as claimed: the first element of all_columns is "path" whatever the
\* view's columns.order, hidden and computed are.
C2_PathAlwaysFirst == pc = "done" => table.all_columns[1] = "path"

\* a name of order that is in the column set and stands ahead of "path"
OrderedAheadOfPath(order, all_columns) ==
  \E i \in 1..Len(order) :
    /\ order[i] # "path"
    /\ Contains(all_columns, order[i])
    /\ \A j \in 1..(i - 1) : order[j] # "path"

\* C2 as amended: all_columns always contains "path", and "path" is its
\* first element exactly when columns.order names no existing column ahead
\* of "path".
C2_PathFirstUnlessOrderedBehind ==
  pc = "done" =>
    /\ Contains(table.all_columns, "path")
    /\ table.all_columns[1] = "path"
         <=> ~OrderedAheadOfPath(view.columns.order, table.all_columns)

\* C2 happens both ways: an order that puts an existing column ahead of
\* "path" is applied, and "path" is not the first column.
C2_Witness ==
  /\ pc = "done"
  /\ view.columns.order = <<"loss", "zz", "path", "loss">>
  /\ table.all_columns[1] = "loss"
  /\ Len(table.rows) > 0

\* the column set: path, the fields of the records, the computed names
ColumnSet ==
  {"path"} \cup UNION {KeySet(records[i]) : i \in 1..Len(records)}
           \cup {view.columns.computed[i].name : i \in 1..Len(view.columns.computed)}

IsField(c) == \E i \in 1..Len(records) : Has(records[i], c)

FirstRecordWith(c) ==
  CHOOSE i \in 1..Len(records) :
    Has(records[i], c) /\ \A j \in 1..(i - 1) : ~Has(records[j], c)

\* c is discovered before d: path first, then the fields as the records
\* show them, then the computed names in the order of columns.computed
DiscoveredBefore(c, d) ==
  LET computed_names == [i \in 1..Len(view.columns.computed) |->
                           view.columns.computed[i].name]
  IN  IF c = "path" \/ d = "path" THEN c = "path" /\ d # "path"
      ELSE IF IsField(c) /\ IsField(d)
      THEN \/ FirstRecordWith(c) < FirstRecordWith(d)
           \/ /\ FirstRecordWith(c) = FirstRecordWith(d)
              /\ IndexOf(Keys(records[FirstRecordWith(c)]), c)
                   < IndexOf(Keys(records[FirstRecordWith(d)]), d)
      ELSE IF IsField(c) \/ IsField(d) THEN IsField(c)
      ELSE IndexOf(computed_names, c) < IndexOf(computed_names, d)

\* C9: all_columns is the names of columns.order that are in the column
\* set, once each and in configured order, then every other column in
\* discovery order; names outside the column set are dropped and no name
\* is repeated.
C9_ColumnOrder ==
  pc = "done" =>
    LET order == view.columns.order
        all == table.all_columns
        configured == {c \in Range(order) : c \in ColumnSet}
        k == Cardinality(configured)
    IN  /\ NoDuplicates(all)
        /\ Range(all) = ColumnSet
        /\ {all[i] : i \in 1..k} = configured
        /\ InOrderOf(SubSeq(all, 1, k), order)
        /\ \A a, b \in (k + 1)..Len(all) : a < b => DiscoveredBefore(all[a], all[b])

\* C9 happens: the order names a column twice and a column that does not
\* exist, and leaves out discovered and computed columns.
C9_Witness ==
  /\ pc = "done"
  /\ view.columns.order = <<"loss", "zz", "path", "loss">>
  /\ table.all_columns = <<"loss", "path", "step", "score", "next">>

\* C10: visible_columns is all_columns without the names of columns.hidden,
\* in the same relative order; a hidden column stays a key of every row with
\* the value it has when nothing is hidden, computed columns that read it
\* included.
C10_HiddenOnlyLeavesVisible ==
  pc = "done" =>
    \E unhidden \in {apply_view(records, [view EXCEPT !.columns.hidden = <<>>])} :
        /\ Range(table.visible_columns)
             = Range(table.all_columns) \ Range(view.columns.hidden)
        /\ NoDuplicates(table.visible_columns)
        /\ InOrderOf(table.visible_columns, table.all_columns)
        /\ table.all_columns = unhidden.all_columns
        /\ table.rows = unhidden.rows
        /\ \A i \in 1..Len(table.rows) :
             \A h \in Range(view.columns.hidden) \cap Range(table.all_columns) :
               Has(table.rows[i].cells, h)

\* C10 happens: a field and a computed column are hidden, a computed column
\* reads the hidden field, and a visible computed column the hidden one.
C10_Witness ==
  /\ pc = "done"
  /\ view.columns.hidden = <<"step", "score", "zz">>
  /\ table.visible_columns = <<"path", "loss", "next">>
  /\ \E i \in 1..Len(table.rows) :
       /\ GetOrNone(table.rows[i].cells, "step") = VInt(10)
       /\ GetOrNone(table.rows[i].cells, "score") = VInt(11)
       /\ GetOrNone(table.rows[i].cells, "next") = VInt(11)


-----------------------------------------------------------------------------
(* The claims about the row order.  A row of the table is told by its id,  *)
(* the position of its record; its values when the rows are sorted are the *)
(* ones before any display format.                                         *)

Ids(rows) == [i \in 1..Len(rows) |-> rows[i].id]

\* For the rows in the order rows, under view v: the path each has when
\* _sort_rows runs, whether that pins it, and the value it is sorted by.
SortTimeOf(rows, v) ==
  LET before == ComputedRows(records, v).rows
  IN  [i \in 1..Len(rows) |->
         LET cells == before[rows[i].id].cells
             path == GetOrNone(cells, "path")
         IN  [path |-> path,
              pinned |-> path.t = "str" /\ Contains(v.rows.pinned_ids, path.s),
              value |-> IF SortFieldSet(v.rows.sort.by)
                        THEN GetOrNone(cells, v.rows.sort.by[1])
                        ELSE VNone]]

\* the same for the rows of the table
SortTime == SortTimeOf(table.rows, view)

IsPermutation(ids, n) == Len(ids) = n /\ Range(ids) = 1..n

\* s without the elements that repeat their predecessor
RECURSIVE Collapsed(_)
Collapsed(s) ==
  IF Len(s) <= 1 THEN s
  ELSE IF s[1] = s[2] THEN Collapsed(Tail(s))
  ELSE <<s[1]>> \o Collapsed(Tail(s))

\* s can be got from whole by leaving elements out
RECURSIVE IsSubsequence(_, _)
IsSubsequence(s, whole) ==
  IF Len(s) = 0 THEN TRUE
  ELSE IF Len(whole) = 0 THEN FALSE
  ELSE IF s[1] = whole[1] THEN IsSubsequence(Tail(s), Tail(whole))
  ELSE IsSubsequence(s, Tail(whole))

\* the paths of the pinned rows, in the order of the rows
PinnedPaths(st) ==
  LET pinned == SelectSeq(st, LAMBDA r : r.pinned)
  IN  [a \in 1..Len(pinned) |-> pinned[a].path.s]

\* C3: every row whose path is in rows.pinned_ids stands before every row
\* whose path is not, and the pinned rows follow the order their paths have
\* in pinned_ids, whatever sort.by and sort.direction are.
C3_PinnedRowsLead ==
  pc = "done" =>
    LET st == SortTime
    IN  /\ IsPermutation(Ids(table.rows), Len(records))
        /\ \A i, j \in 1..Len(st) : st[i].pinned /\ ~st[j].pinned => i < j
        /\ IsSubsequence(Collapsed(PinnedPaths(st)), view.rows.pinned_ids)

\* C3 happens: two pinned rows lead in pinned_ids order, against the input
\* order and against an ascending sort that puts the unpinned row first.
C3_Witness ==
  /\ pc = "done"
  /\ view.rows.pinned_ids = << <<"b">>, <<"a">> >>
  /\ view.rows.sort = [by |-> <<"step">>, direction |-> "asc"]
  /\ Len(records) = 3
  /\ PinnedPaths(SortTime) = << <<"b">>, <<"a">> >>
  /\ SortTime[3].value = VStr(<<" ", "5">>)
  /\ Ids(table.rows) = <<3, 1, 2>>

\* C4 as claimed: a path that occurs more than once in pinned_ids places its
\* row by its first occurrence.
C4_FirstOccurrencePlaces ==
  pc = "done" =>
    LET st == SortTime
    IN  \A i, j \in 1..Len(st) :
          st[i].pinned /\ st[j].pinned /\ i < j =>
            IndexOf(view.rows.pinned_ids, st[i].path.s)
              <= IndexOf(view.rows.pinned_ids, st[j].path.s)

-----------------------------------------------------------------------------
(* The sort key as the claims state it.                                    *)

\* C5 as claimed: numbers, and strings that are a numeric literal from the
\* first character to the last, are class 0; other non-null values class 1;
\* null class 2.
ClaimedClass(value) ==
  CASE value.t \in {"int", "float", "nan"} -> 0
    [] value.t = "str" -> IF _NUMERIC_RE(value.s) THEN 0 ELSE 1
    [] value.t = "bool" -> 1
    [] value.t = "none" -> 2

\* C5 as amended: a NaN is no number, and a string is a numeric literal when
\* it is one once the whitespace around it is stripped.
AmendedClass(value) ==
  CASE value.t \in {"int", "float"} -> 0
    [] value.t = "str" -> IF _NUMERIC_RE(Strip(value.s)) THEN 0 ELSE 1
    [] value.t \in {"bool", "nan"} -> 1
    [] value.t = "none" -> 2

\* the magnitude of a class 0 value, in units of 1/Scale
Magnitude(value) ==
  CASE value.t = "int" -> value.n * Scale
    [] value.t = "float" -> value.n
    [] value.t = "str" -> ParseScaled(Strip(value.s))

\* a sorts strictly before b under the amended three-level key
AmendedBefore(a, b) ==
  \E class_a \in {AmendedClass(a)}, class_b \in {AmendedClass(b)} :
    \/ class_a < class_b
    \/ /\ class_a = class_b
       /\ \/ class_a = 0 /\ Magnitude(a) < Magnitude(b)
          \/ class_a = 1 /\ StrLess(PyStr(a), PyStr(b))

\* a sorts strictly before b under the key as claimed
ClaimedBefore(a, b) ==
  \/ ClaimedClass(a) < ClaimedClass(b)
  \/ /\ ClaimedClass(a) = ClaimedClass(b)
     /\ "nan" \notin {a.t, b.t}
     /\ \/ ClaimedClass(a) = 0 /\ Magnitude(a) < Magnitude(b)
        \/ ClaimedClass(a) = 1 /\ StrLess(PyStr(a), PyStr(b))

Unpinned(st) == {i \in 1..Len(st) : ~st[i].pinned}

Sorting(direction) ==
  /\ pc = "done"
  /\ SortFieldSet(view.rows.sort.by)
  /\ view.rows.sort.direction = direction

\* C5 as claimed: ascending, the unpinned rows are ordered by the key as
\* claimed.
C5_ClaimedKey ==
  Sorting("asc") =>
    LET st == SortTime
    IN  \A i, j \in Unpinned(st) : i < j => ~ClaimedBefore(st[j].value, st[i].value)

\* C5 as amended: ascending, the unpinned rows are ordered by the amended
\* three-level key: numbers but NaN and stripped numeric literals by
\* magnitude, then the other non-null values by their string form, booleans
\* and NaN among them, then null.
C5_AscendingByKey ==
  Sorting("asc") =>
    LET st == SortTime
    IN  \A i, j \in Unpinned(st) : i < j => ~AmendedBefore(st[j].value, st[i].value)

\* C5 happens: a float, a numeric string and a boolean are sorted ascending:
\* 2.5 before "10" by magnitude, True last.
C5_Witness ==
  /\ Sorting("asc")
  /\ view.rows.sort.by = <<"loss">>
  /\ Len(table.rows) = 3
  /\ Unpinned(SortTime) = {1, 2, 3}
  /\ SortTime[1].value = VFloat(25)
  /\ SortTime[2].value = VStr(<<"1", "0">>)
  /\ SortTime[3].value = VBool(TRUE)
  /\ Ids(table.rows) = <<3, 2, 1>>

Flipped(direction) == IF direction = "asc" THEN "desc" ELSE "asc"

\* C6: descending, the unpinned rows are in the reverse of the ascending
\* order of the key: null first, then the non-numeric values, then the
\* numbers from large to small; the pinned rows are the same rows at the
\* same places in both directions.
C6_DescendingReversesKey ==
  pc = "done" =>
    \E st \in {SortTime} :
    LET other == apply_view(records,
                            [view EXCEPT !.rows.sort.direction = Flipped(@)]).rows
    IN  /\ Sorting("desc") =>
             \A i, j \in Unpinned(st) :
               i < j => ~AmendedBefore(st[i].value, st[j].value)
        /\ \A i \in 1..Len(st) : st[i].pinned => other[i].id = table.rows[i].id

\* C6 happens: behind a pinned row, a null stands before a number.
C6_Witness ==
  /\ Sorting("desc")
  /\ view.rows.sort.by = <<"step">>
  /\ Len(table.rows) = 3
  /\ SortTime[1].pinned /\ Unpinned(SortTime) = {2, 3}
  /\ SortTime[2].value = VNone
  /\ SortTime[3].value = VInt(10)
  /\ Ids(table.rows) = <<2, 3, 1>>

\* a and b have the same sort key
SameKey(a, b) == ~AmendedBefore(a, b) /\ ~AmendedBefore(b, a)

\* C7: in both directions, unpinned rows whose sort keys are equal keep the
\* relative order of their records.
C7_StableSort ==
  pc = "done" /\ SortFieldSet(view.rows.sort.by) =>
    \E st \in {SortTime} :
        \A i, j \in Unpinned(st) :
          i < j /\ SameKey(st[i].value, st[j].value)
            => table.rows[i].id < table.rows[j].id

\* C7 happens: descending, 10 and "10" have the same key and stay in input
\* order behind a row that was behind them.
C7_Witness ==
  /\ Sorting("desc")
  /\ view.rows.sort.by = <<"step">>
  /\ Unpinned(SortTime) = {1, 2, 3}
  /\ SortTime[1].value = VNone
  /\ SortTime[2].value = VInt(10)
  /\ SortTime[3].value = VStr(<<"1", "0">>)
  /\ Ids(table.rows) = <<3, 1, 2>>

\* C8: the display formats change no row's place: the rows are in the order
\* they have under the same view without formats.
C8_FormatsKeepRowOrder ==
  pc = "done" =>
    Ids(table.rows)
      = Ids(apply_view(records, [view EXCEPT !.columns.format = <<>>]).rows)

\* C8 happens: the path and the sort column are formatted, the rows are
\* pinned by the path and sorted by the value they had before.
C8_Witness ==
  /\ Sorting("asc")
  /\ view.rows.sort.by = <<"step">>
  /\ view.rows.pinned_ids = << <<"b">> >>
  /\ Ids(table.rows) = <<2, 3, 1>>
  /\ SortTime[1].path = VStr(<<"b">>)
  /\ GetOrNone(table.rows[1].cells, "path") # VStr(<<"b">>)
  /\ GetOrNone(table.rows[2].cells, "step") = VStr(<<"0", "0", "0", "5">>)
  /\ GetOrNone(table.rows[3].cells, "step") = VStr(<<"0", "0", "1", "0">>)

-----------------------------------------------------------------------------
(* The claims about normalization and the unsorted order.                  *)

\* C11: normalization returns one row per record, in record order; a row
\* holds every field of its record with the record's value, None for path
\* if the record has none and None for every discovered column the record
\* lacks, and nothing else.  Without computed columns and formats these are
\* the rows of the table.
C11_NormalizationKeepsRecords ==
  pc = "done" =>
    LET normalized == _normalize_rows(records)
        rows == normalized.rows
    IN  /\ Len(rows) = Len(records)
        /\ \A i \in 1..Len(rows) :
             /\ rows[i].id = i
             /\ NoDuplicates(Keys(rows[i].cells))
             /\ KeySet(rows[i].cells)
                  = {"path"} \cup UNION {KeySet(records[j]) : j \in 1..Len(records)}
             /\ \A k \in KeySet(rows[i].cells) :
                  Get(rows[i].cells, k)
                    = IF Has(records[i], k) THEN Get(records[i], k) ELSE VNone
        /\ view.columns.computed = <<>> /\ view.columns.format = <<>> =>
             /\ IsPermutation(Ids(table.rows), Len(records))
             /\ \A i \in 1..Len(table.rows) :
                  table.rows[i].cells = rows[table.rows[i].id].cells

\* C11 happens: three records, one without a path and one without a step,
\* are normalized and returned in record order with None in the gaps.
C11_Witness ==
  /\ pc = "done"
  /\ view.columns.computed = <<>> /\ view.columns.format = <<>>
  /\ Len(records) = 3
  /\ ~Has(records[1], "path") /\ ~Has(records[2], "step")
  /\ Ids(table.rows) = <<1, 2, 3>>
  /\ GetOrNone(table.rows[1].cells, "path") = VNone
  /\ Has(table.rows[1].cells, "path")
  /\ Has(table.rows[2].cells, "step")
  /\ GetOrNone(table.rows[2].cells, "step") = VNone
  /\ GetOrNone(table.rows[3].cells, "step") = VInt(10)

\* C12: with sort.by unset, None or the empty string, the unpinned rows are
\* in the relative order of their records, whatever the direction is.
C12_UnsortedKeepsInputOrder ==
  pc = "done" /\ ~SortFieldSet(view.rows.sort.by) =>
    LET st == SortTime
    IN  \A i, j \in Unpinned(st) : i < j => table.rows[i].id < table.rows[j].id

\* C12 happens: sort.by is the empty string and the direction desc; behind
\* a pinned row the two unpinned rows stay in record order.
C12_Witness ==
  /\ pc = "done"
  /\ view.rows.sort = [by |-> <<"">>, direction |-> "desc"]
  /\ Len(table.rows) = 3
  /\ SortTime[1].pinned /\ Unpinned(SortTime) = {2, 3}
  /\ Ids(table.rows) = <<2, 1, 3>>

-----------------------------------------------------------------------------
(* The claims about the computed columns.  The rows are looked at as they  *)
(* are behind _apply_computed_columns, before the sort and the formats.    *)

ErrorString(r) == VStr(ERROR_PREFIX \o r.msg)

\* the row final of a record as it was when computed[j] was evaluated:
\* the columns of computed[j] and of the later ones have the value of the
\* normalized row norm, or are not there if norm has none
StateBefore(final, norm, computed, j) ==
  LET later == {computed[k].name : k \in j..Len(computed)}
      restored == [x \in 1..Len(final) |->
                     IF final[x].k \in later /\ Has(norm, final[x].k)
                     THEN Item(final[x].k, Get(norm, final[x].k))
                     ELSE final[x]]
  IN  SelectSeq(restored, LAMBDA e : e.k \notin later \/ Has(norm, e.k))

\* C13: apply_view returns a table with every row whatever fails; the cell
\* of a row in a computed column is the "ERROR: ..." string of its own
\* failure if its expression fails on that row, and the value of the
\* expression if it does not; the columns that are not computed keep their
\* normalized values.
C13_ComputedFailureStaysInItsCell ==
  pc = "done" =>
    \E computed \in {view.columns.computed},
       norm \in {_normalize_rows(records).rows},
       after \in {ComputedRows(records, view).rows} :
    LET names == {computed[j].name : j \in 1..Len(computed)}
    IN  /\ Len(table.rows) = Len(records)
        /\ Len(after) = Len(records)
        /\ \A i \in 1..Len(after) :
             /\ \A c \in KeySet(norm[i].cells) \ names :
                  Get(after[i].cells, c) = Get(norm[i].cells, c)
             /\ \A j \in 1..Len(computed) :
                  LET r == Eval(computed[j].expr,
                                StateBefore(after[i].cells, norm[i].cells, computed, j))
                  IN  /\ Has(after[i].cells, computed[j].name)
                      /\ Get(after[i].cells, computed[j].name)
                           = IF r.raised THEN ErrorString(r) ELSE r.value
        /\ view.columns.format = <<>> =>
             \A i \in 1..Len(table.rows) :
               table.rows[i].cells = after[table.rows[i].id].cells

IsErrorString(value) ==
  /\ value.t = "str"
  /\ Len(value.s) >= Len(ERROR_PREFIX)
  /\ SubSeq(value.s, 1, Len(ERROR_PREFIX)) = ERROR_PREFIX

\* C13 happens: step + 1 fails for the row whose step is the string "10"
\* and gives 11 for the row whose step is 10; the steps stay as they were.
C13_Witness ==
  /\ pc = "done"
  /\ view.columns.format = <<>>
  /\ \E i, j \in 1..Len(table.rows) :
       /\ GetOrNone(table.rows[i].cells, "step") = VStr(<<"1", "0">>)
       /\ IsErrorString(GetOrNone(table.rows[i].cells, "score"))
       /\ GetOrNone(table.rows[j].cells, "step") = VInt(10)
       /\ GetOrNone(table.rows[j].cells, "score") = VInt(11)

Reads(expr, name) == expr.op \in {"get", "add1"} /\ expr.k = name

\* C14: the computed columns are evaluated in list order, each written
\* before the next is evaluated: a later column that reads an earlier one
\* gets its value for the same row, an "ERROR: ..." string included; an
\* earlier column that reads a later one gets the normalized value of that
\* name, or a KeyError if the records have no such field.
C14_ComputedInListOrder ==
  pc = "done" =>
    \E computed \in {view.columns.computed},
       norm \in {_normalize_rows(records).rows},
       after \in {ComputedRows(records, view).rows} :
        \A i \in 1..Len(after) : \A j, k \in 1..Len(computed) :
          j < k =>
            /\ computed[k].expr = GetExpr(computed[j].name) =>
                 Get(after[i].cells, computed[k].name)
                   = Get(after[i].cells, computed[j].name)
            /\ Reads(computed[j].expr, computed[k].name) =>
                 Get(after[i].cells, computed[j].name)
                   = IF Has(norm[i].cells, computed[k].name)
                     THEN LET r == Eval(computed[j].expr, norm[i].cells)
                          IN  IF r.raised THEN ErrorString(r) ELSE r.value
                     ELSE VStr(ERROR_PREFIX \o KeyErrorMsg(NameChars(computed[k].name)))

\* C14 happens: next reads score, computed before it: 11 in one row, the
\* error string of score in another.
C14_Witness ==
  /\ pc = "done"
  /\ view.columns.format = <<>>
  /\ view.columns.computed
       = <<Computed("score", Add1("step")), Computed("next", GetExpr("score"))>>
  /\ \E i, j \in 1..Len(table.rows) :
       /\ GetOrNone(table.rows[i].cells, "score") = VInt(11)
       /\ GetOrNone(table.rows[i].cells, "next") = VInt(11)
       /\ IsErrorString(GetOrNone(table.rows[j].cells, "score"))
       /\ GetOrNone(table.rows[j].cells, "next") = GetOrNone(table.rows[j].cells, "score")

-----------------------------------------------------------------------------
(* The claims about the display formats.  The cells of the table are       *)
(* compared with the cells the rows have before the formats are applied.   *)

\* the rows before the formats, by record
UnformattedRows == ComputedRows(records, view).rows

\* the cells of the record of table row i before the formats
Unformatted(i) == UnformattedRows[table.rows[i].id].cells

IsFormatError(value) ==
  /\ value.t = "str"
  /\ Len(value.s) >= Len(FORMAT_ERROR_PREFIX)
  /\ SubSeq(value.s, 1, Len(FORMAT_ERROR_PREFIX)) = FORMAT_ERROR_PREFIX

\* C15: a cell that is None before the formats is None in the table, in
\* every column, whatever template the column has.
C15_NullIsNeverFormatted ==
  pc = "done" =>
    \E before \in {UnformattedRows} :
      \A i \in 1..Len(table.rows) :
        \E cells \in {before[table.rows[i].id].cells} :
          \A c \in KeySet(cells) :
            Get(cells, c) = VNone => GetOrNone(table.rows[i].cells, c) = VNone

\* C15 happens: a row without a step under "{d:04}" and a row without a
\* path under the failing "{x}" keep None, next to cells that are formatted.
C15_Witness ==
  /\ pc = "done"
  /\ Has(view.columns.format, "step") /\ Get(view.columns.format, "step") = "{d:04}"
  /\ Has(view.columns.format, "path") /\ Get(view.columns.format, "path") = "{x}"
  /\ \E i, j, k \in 1..Len(table.rows) :
       /\ Has(table.rows[i].cells, "step")
       /\ GetOrNone(table.rows[i].cells, "step") = VNone
       /\ IsFormatError(GetOrNone(table.rows[i].cells, "path"))
       /\ Has(table.rows[j].cells, "path")
       /\ GetOrNone(table.rows[j].cells, "path") = VNone
       /\ GetOrNone(table.rows[j].cells, "step") = VStr(<<"0", "0", "0", "5">>)
       /\ GetOrNone(table.rows[k].cells, "step") = VStr(<<"0", "0", "1", "0">>)

\* C16: every cell of the table is decided by its own value and its own
\* column's template: without a template, with the empty template or with
\* the value None it is unchanged; else it is the formatted text, or a
\* "FORMAT_ERROR: ..." string if formatting that value fails.  The table has
\* every row.
C16_FormatFailureStaysInItsCell ==
  pc = "done" =>
    /\ Len(table.rows) = Len(records)
    /\ \E before \in {UnformattedRows} :
       \A i \in 1..Len(table.rows) :
         \E cells \in {before[table.rows[i].id].cells}, format \in {view.columns.format} :
             /\ Keys(table.rows[i].cells) = Keys(cells)
             /\ \A c \in KeySet(cells) :
                  LET value == Get(cells, c)
                      shown == Get(table.rows[i].cells, c)
                  IN  IF ~Has(format, c) \/ value = VNone THEN shown = value
                      ELSE IF Get(format, c) = "" THEN shown = value
                      ELSE LET r == Format(Get(format, c), _coerce_format_value(value))
                           IN  IF r.raised
                               THEN shown = VStr(FORMAT_ERROR_PREFIX \o r.msg)
                                    /\ IsFormatError(shown)
                               ELSE shown = VStr(r.s)

\* C16 happens: in one row the score fails under "{d:invalid}", the step is
\* formatted and the loss, under the empty template, is unchanged.
C16_Witness ==
  /\ pc = "done"
  /\ \E i \in 1..Len(table.rows) :
       /\ GetOrNone(Unformatted(i), "step") = VInt(10)
       /\ GetOrNone(Unformatted(i), "score") = VInt(11)
       /\ IsFormatError(GetOrNone(table.rows[i].cells, "score"))
       /\ GetOrNone(table.rows[i].cells, "step") = VStr(<<"0", "0", "1", "0">>)
       /\ GetOrNone(table.rows[i].cells, "loss") = VBool(TRUE)
       /\ GetOrNone(table.rows[i].cells, "next") = VInt(11)

-----------------------------------------------------------------------------
(* The claim about the inputs of apply_view.                               *)

-----------------------------------------------------------------------------
(* The claim about the view store.                                         *)

\* C20: load_view(root, v.name) behind save_view(root, v), v a validated
\* view, returns a view equal to v in every field.
C20_SaveLoadRoundTrip ==
  saved # NoView /\ loaded # NoLoad /\ loaded.name = saved.name =>
    /\ loaded.result.ok
    /\ loaded.result.view = saved

\* C20 happens: a view whose strings hold a quote and a backslash, with
\* aliases, formats, computed columns, pins and a sort, is saved and loaded.
C20_Witness ==
  /\ saved # NoView
  /\ saved.name = <<Quote, "a">>
  /\ saved.pattern = <<".", "*", Backslash, ".", "j", "s", "o", "n", "$">>
  /\ saved.columns = FullSetup.columns
  /\ saved.rows = FullSetup.rows
  /\ loaded.name = saved.name
  /\ loaded.result = Valid(saved)
  /\ view_files[saved.name] # model_dump(saved)

-----------------------------------------------------------------------------
(* The claims about the HTTP layer's scan cache.                           *)

\* the view a scan or render request for name is answered with
ViewUsed(req, files, name) ==
  IF req.view # NoView THEN req.view ELSE load_view(files, name).view

\* the view the last scan or render request was answered with
RequestView == ViewUsed(request, view_files, active_view_name)

\* what a scan with this pattern may give now
FreshRecords(pattern) ==
  {scan_records(walk, pattern).records : walk \in Walks(log_files, view_files)}

\* the last request was a render that was answered
RenderAnswered == request.op = "render" /\ response.status = 200

\* the entries of the names of keep are the same in both dicts
SameEntries(before, after, keep) ==
  \A name \in keep :
    /\ name \in DOMAIN before <=> name \in DOMAIN after
    /\ name \in DOMAIN before => after[name] = before[name]

CacheNames == DOMAIN cached_records \cup DOMAIN cached_records'

CacheUnchanged ==
  /\ cached_records' = cached_records
  /\ cached_scan_meta' = cached_scan_meta

\* C18 as stated: the scan cache is changed only by a scan request, so a
\* render request (like every other step) leaves the cached names and their
\* records as they were.
C18_CacheChangedOnlyByScan ==
  [][~CacheUnchanged => request'.op = "scan"]_vars

\* C18, amended: a render request for a name that has an entry leaves the
\* cache as it was; a render request for a name without one stores for that
\* name what a scan gives now and leaves the other entries; a scan request
\* changes the entry of its name only; a rename changes the entries of its
\* two names only; a refused request and a written file change nothing.
C18_CacheWrittenByScanMissAndRename ==
  [][\E req \in {request'}, name \in {active_view_name'}, answered \in {response'.status = 200} :
         /\ req.op = "render" /\ answered /\ name \in DOMAIN cached_records
               => CacheUnchanged
         /\ req.op = "render" /\ answered /\ name \notin DOMAIN cached_records
               => /\ name \in DOMAIN cached_records'
                  /\ cached_records'[name]
                       \in FreshRecords(ViewUsed(req, view_files, name).pattern)
                  /\ SameEntries(cached_records, cached_records', CacheNames \ {name})
         /\ req.op = "scan" /\ answered
               => SameEntries(cached_records, cached_records', CacheNames \ {name})
         /\ req.op = "rename" /\ answered
               => SameEntries(cached_records, cached_records',
                              CacheNames \ {req.old_name, req.new_name})
         /\ req.op = "write" \/ ~answered => CacheUnchanged]_vars

\* a render was answered from an entry that a scan would not give now
C18_Witness ==
  /\ RenderAnswered
  /\ active_view_name \in DOMAIN cached_records
  /\ cached_records[active_view_name] \notin FreshRecords(RequestView.pattern)

\* C19 as stated: once a scan was done for a view name, every render for
\* that name shows the table of the records its most recent scan captured.
C19_RenderShowsLastScan ==
  RenderAnswered /\ active_view_name \in DOMAIN last_scan =>
    response.rows = apply_view(last_scan[active_view_name], RequestView).rows

\* C19, amended: every render for a name shows the table of the records
\* the cache holds under that name, whatever the files hold now; and the
\* records held under a name change only by a scan for that name or by a
\* rename from or to that name.
C19_RenderShowsCachedRecords ==
  /\ [](RenderAnswered =>
          /\ active_view_name \in DOMAIN cached_records
          /\ response.rows
               = apply_view(cached_records[active_view_name], RequestView).rows)
  /\ [][\A name \in DOMAIN cached_records :
          name \notin DOMAIN cached_records'
            \/ cached_records'[name] # cached_records[name]
          => \/ request'.op = "scan" /\ active_view_name' = name
             \/ request'.op = "rename" /\ name \in {request'.old_name, request'.new_name}]_vars

\* after scans for two names and a change of the files, a render showed
\* the records of the last scan for its name, which a scan would not give now
C19_Witness ==
  /\ RenderAnswered
  /\ active_view_name \in DOMAIN last_scan
  /\ DOMAIN last_scan # {active_view_name}
  /\ response.rows = apply_view(last_scan[active_view_name], RequestView).rows
  /\ last_scan[active_view_name] \notin FreshRecords(RequestView.pattern)

-----------------------------------------------------------------------------
(* The claims about the validation of a view and the names in the store.   *)

\* the alias labels and the computed names a payload gives, in its order
PayloadAliases(payload) ==
  LET alias == Get(Get(payload.items, "columns").items, "alias").items
  IN  [i \in 1..Len(alias) |-> alias[i].v.s]

PayloadComputedNames(payload) ==
  LET computed == Get(Get(payload.items, "columns").items, "computed").items
  IN  [i \in 1..Len(computed) |-> Get(computed[i].items, "name").s]

\* two entries of s, neither blank when blanks are let through, are equal
Repeats(s, blanks_count) ==
  \E i, j \in 1..Len(s) :
    i # j /\ s[i] = s[j] /\ (blanks_count \/ Len(Strip(s[i])) > 0)

\* the name is one a view may have
NameAllowed(name) ==
  /\ \E i \in 1..Len(name) : name[i] # " "
  /\ \A i \in 1..Len(name) : name[i] # "/" /\ name[i] # Backslash

\* C21: constructing a view is refused with a validation error when two
\* alias entries have the same non-blank label or two computed columns the
\* same name; equal blank labels are let through: a payload with neither
\* repeat (and a name a view may have) is constructed, with all its labels.
C21_DuplicateLabelsRejected ==
  called.op = "construct" =>
    LET labels == PayloadAliases(called.payload)
        names == PayloadComputedNames(called.payload)
        repeated == Repeats(labels, FALSE) \/ Repeats(names, TRUE)
    IN  /\ repeated => ~called.ok /\ called.error = "ValidationError"
        /\ ~repeated /\ NameAllowed(called.names[1]) =>
             /\ called.ok
             /\ [i \in 1..Len(called.view.columns.alias) |->
                   called.view.columns.alias[i].v] = labels

\* a payload with the label "L" twice and an empty label between them was
\* refused
C21_Witness ==
  /\ called.op = "construct"
  /\ ~called.ok
  /\ PayloadAliases(called.payload) = << <<"L">>, <<>>, <<"L">> >>
  /\ PayloadComputedNames(called.payload) = <<>>

\* the name field a view file stores
StoredName(document) == Get(JsonLoads(document).items, "name").s

\* C22: every view file has a stem and a stored name that are non-empty
\* after trimming and hold neither "/" nor a backslash, whatever was
\* constructed, saved, copied and renamed; and a call given a blank name or
\* a name with a separator raises and leaves the view files as they were.
C22_StoredNamesAreAllowed ==
  /\ [](\A stem \in DOMAIN view_files :
          NameAllowed(stem) /\ NameAllowed(StoredName(view_files[stem])))
  /\ [][(\E i \in 1..Len(called'.names) : ~NameAllowed(called'.names[i])) =>
          /\ ~called'.ok
          /\ called'.error \in {"ValueError", "ValidationError"}
          /\ called'.view = NoView
          /\ view_files' = view_files]_vars

\* a copy of the stored view "a" under the name "a/" was refused
C22_Witness ==
  /\ called.op = "create"
  /\ called.names = << <<"a", "/">>, <<"a">> >>
  /\ ~called.ok
  /\ <<"a">> \in DOMAIN view_files

\* C26: rename_view(old, new) for two different names (names are compared
\* as the store keeps them, trimmed): it succeeds exactly when a view is
\* stored under old and none under new; on success the file of new holds
\* what the file of old held but for the name, the file of old is gone, the
\* other files are as they were, and the view is returned; otherwise it
\* raises and every file is as it was; the number of files never changes.
C26_RenameMovesTheView ==
  [][/\ called'.op = "rename" =>
          Cardinality(DOMAIN view_files') = Cardinality(DOMAIN view_files)
     /\ (/\ called'.op = "rename"
         /\ NameAllowed(called'.names[1]) /\ NameAllowed(called'.names[2])
         /\ Strip(called'.names[1]) # Strip(called'.names[2]))
        => \E old \in {Strip(called'.names[1])} : \E new \in {Strip(called'.names[2])} :
             /\ called'.ok <=> (old \in DOMAIN view_files /\ new \notin DOMAIN view_files)
             /\ called'.ok =>
                  /\ DOMAIN view_files' = (DOMAIN view_files \ {old}) \cup {new}
                  /\ JsonLoads(view_files'[new]).items
                       = Put(JsonLoads(view_files[old]).items, "name", JStr(new))
                  /\ \A stem \in DOMAIN view_files \ {old} :
                       view_files'[stem] = view_files[stem]
                  /\ called'.view.name = new
                  /\ model_dump(called'.view) = JsonLoads(view_files'[new])
             /\ ~called'.ok =>
                  /\ called'.error \in {"ViewNotFoundError", "ValueError"}
                  /\ view_files' = view_files]_vars

\* the view saved as "b", with its aliases and computed columns, was
\* renamed to "c" beside the stored view "a"
C26_Witness ==
  /\ called.op = "rename"
  /\ called.names = << <<" ", "b", " ">>, <<"c">> >>
  /\ called.ok
  /\ DOMAIN view_files = {<<"a">>, <<"c">>}
  /\ called.view.columns = FullSetup.columns

-----------------------------------------------------------------------------
(* The claims about the scanner.                                           *)

\* the files of the last walk that the pattern matched, in walk order
MatchedFiles ==
  SelectSeq(scan_call.walk, LAMBDA file : Search(scan_call.pattern, file.path))

\* those of them that hold a JSON object
ParsedFiles == SelectSeq(MatchedFiles, LAMBDA file : file.content.kind = "object")

\* C23: every record of a scan has a path field that is the relative path
\* of its file, whatever keys the file's JSON object has.
C23_PathIsTheFilePath ==
  \A i \in 1..Len(scan_call.result.records) :
    /\ i <= Len(ParsedFiles)
    /\ Has(scan_call.result.records[i], "path")
    /\ Get(scan_call.result.records[i], "path") = VStr(ParsedFiles[i].path)

\* the warnings of the last scan for a path
WarningsFor(path) == SelectSeq(scan_call.result.warnings, LAMBDA w : w.path = path)

SkipMessages == {"Failed to parse JSON file", "JSON root is not an object; file skipped."}

\* the fields of a parsed file that are arrays or objects, in file order
NonScalarFields(file) ==
  LET bad == SelectSeq(file.content.items, LAMBDA e : e.v = NonScalar)
  IN  [i \in 1..Len(bad) |-> bad[i].k]

\* C24: of the files the walk reaches (none lies in an ignored directory)
\* every matched one gives either one record or one skip warning: a record
\* when it holds a JSON object, with every scalar field as in the file (the
\* key "path" apart) and every other field None with one warning each; a
\* skip warning and nothing
\* else when it is unparsable or its root is not an object.  Unmatched files
\* give nothing.  The summary counts the records and the warnings, and
\* parsed_records <= matched_files <= total_files.
C24_ScanAccountsForEveryFile ==
  LET result == scan_call.result
      summary == result.summary
  IN  /\ \A path \in DOMAIN log_files :
             Pruned(path) =>
               /\ \A i \in 1..Len(scan_call.walk) : scan_call.walk[i].path # path
               /\ WarningsFor(path) = <<>>
      /\ Len(result.records) = Len(ParsedFiles)
      /\ \A i \in 1..Len(ParsedFiles) :
           LET items == ParsedFiles[i].content.items
               record == result.records[i]
           IN  /\ KeySet(record) = {"path"} \cup {items[j].k : j \in 1..Len(items)}
               /\ \A j \in 1..Len(items) :
                    /\ items[j].v = NonScalar => Get(record, items[j].k) = VNone
                    /\ items[j].v # NonScalar /\ items[j].k # "path" =>
                         Get(record, items[j].k) = items[j].v
               /\ [j \in 1..Len(WarningsFor(ParsedFiles[i].path)) |->
                     WarningsFor(ParsedFiles[i].path)[j].field]
                    = NonScalarFields(ParsedFiles[i])
               /\ \A j \in 1..Len(WarningsFor(ParsedFiles[i].path)) :
                    WarningsFor(ParsedFiles[i].path)[j].message \notin SkipMessages
      /\ \A i \in 1..Len(scan_call.walk) :
           LET file == scan_call.walk[i]
               warned == WarningsFor(file.path)
           IN  IF ~Search(scan_call.pattern, file.path) THEN warned = <<>>
               ELSE file.content.kind # "object" =>
                      /\ Len(warned) = 1
                      /\ warned[1].message \in SkipMessages
                      /\ (warned[1].message = "Failed to parse JSON file")
                           <=> (file.content.kind = "malformed")
      /\ summary.parsed_records = Len(result.records)
      /\ summary.warning_count = Len(result.warnings)
      /\ summary.matched_files = Len(MatchedFiles)
      /\ summary.total_files = Len(scan_call.walk)
      /\ summary.parsed_records <= summary.matched_files
      /\ summary.matched_files <= summary.total_files

\* a scan met an unparsable file, a file with two non-scalar fields, and
\* let a file in .git be
C24_Witness ==
  /\ IgnoredLog \in DOMAIN log_files
  /\ scan_call.result.summary.total_files = 3
  /\ scan_call.result.summary.matched_files = 3
  /\ scan_call.result.summary.parsed_records = 1
  /\ scan_call.result.summary.warning_count = 4
  /\ \E i \in 1..3 : scan_call.walk[i].content = WithNonScalars
  /\ \E i \in 1..3 : scan_call.walk[i].content = Malformed
  /\ \E i \in 1..3 : scan_call.walk[i].content = NotAnObject

-----------------------------------------------------------------------------
(* The claims about the HTTP layer's view endpoints.                       *)

\* C25: a save whose payload is a view with another name than its target
\* (the active view for POST /api/view, the name of the URL for POST
\* /api/views/{name}) is answered with 400; a save that is refused, with 400
\* or because the payload is no view (422), leaves every view file and the
\* active view name as they were; a save that is accepted writes the view
\* to the file of its target.
C25_SaveRefusedOnNameMismatch ==
  [][request'.op \in {"post_view", "save_view_by_name"} =>
       \E target \in {IF request'.op = "post_view" THEN active_view_name
                       ELSE request'.view_name} :
         /\ request'.view # NoView /\ request'.view.name # target =>
              response'.status = 400
         /\ response'.status \in {200, 400, 422}
         /\ response'.status # 200 =>
              /\ view_files' = view_files
              /\ active_view_name' = active_view_name
         /\ response'.status = 200 =>
              /\ request'.view.name = target
              /\ load_view(view_files', target).view = request'.view
              /\ active_view_name' = target]_vars

\* a save of a view named b to /api/views/a was refused while a was the
\* active view and both were stored
C25_Witness ==
  /\ request.op = "save_view_by_name"
  /\ request.view_name = <<"a">>
  /\ request.view # NoView
  /\ request.view.name = <<"b">>
  /\ response.status = 400
  /\ active_view_name = <<"a">>
  /\ DOMAIN view_files = {<<"a">>, <<"b">>}

\* C27: after a successful POST /api/views/rename the HTTP layer follows
\* the stored view, old being the name the view had in the store and new
\* the name it has now: the records and the scan metadata that were cached
\* under old are cached under new and nothing is cached under old; the
\* active view name is new if it was old; and what a render for new shows
\* from then on are those records, whatever a scan would find.
C27_HttpStateFollowsRename ==
  [][request'.op = "rename" /\ response'.status = 200 =>
       \E old \in {Strip(request'.old_name)} : \E new \in {response'.view.name} :
         old # new =>
           /\ old \in DOMAIN cached_records =>
                /\ new \in DOMAIN cached_records'
                /\ cached_records'[new] = cached_records[old]
                /\ old \notin DOMAIN cached_records'
                /\ \A fresh \in {<<>>, cached_records[old] \o cached_records[old]} :
                     Rendered(cached_records', new, fresh) = cached_records[old]
           /\ old \in DOMAIN cached_scan_meta =>
                /\ new \in DOMAIN cached_scan_meta'
                /\ cached_scan_meta'[new] = cached_scan_meta[old]
                /\ old \notin DOMAIN cached_scan_meta'
           /\ active_view_name = old => active_view_name' = new]_vars

=============================================================================
